---- MODULE Spec2Model ----
(***************************************************************************)
(* PxBox broker: request lifecycle (service.RequestService over            *)
(* db.Queries), scheduler handlers (jobs.JobServer), event fabric          *)
(* (pubsub.Bus, pubsub.Streams, ws.Hub) and flow engine                    *)
(* (service.FlowService).                                                  *)
(*                                                                         *)
(* Atomicity is that of the code: one SQL statement or one Redis command   *)
(* is one step; a handler that issues several is a process whose position  *)
(* (pc) is part of the state, so that other handlers interleave between    *)
(* its statements.                                                         *)
(***************************************************************************)
EXTENDS Integers, Sequences, FiniteSets, TLC

\* ------------------------------------------------------------------ bounds
\* number of service calls / job executions in one behaviour
MaxCalls == 3

\* number of Bus.Publish calls in one behaviour of the event fabric
MaxPubs == 2
\* number of websocket sessions in one behaviour
MaxConns == 2
\* milliseconds the clock advances one by one, and whole days it jumps
MaxTicks == 1
MaxDays == 1
\* number of flow service calls in one behaviour
MaxFlowCalls == 3
\* number of restarts of the process in one behaviour
MaxRestarts == 2
\* number of client calls of either service in one behaviour with restarts
MaxRecCalls == 2
\* capacity of the hub's channel of events to fan out (NewHub makes it 256;
\* scaled so that MaxPubs publications can fill it)
HubCap == 1
\* capacity of a connection's send channel (NewConn makes it 256; scaled so
\* that a subscription's ack and MaxPubs events can fill it)
SendCap == 2
\* entries the compiler's cache holds (the program makes it 64; scaled so
\* that a second document evicts the first)
CacheSize == 1

\* ------------------------------------------------------ program constants
\* ReplayEvents(channel, sinceSeq, 100) in Hub.Resume
ReplayLimit == 100
\* 24*time.Hour in milliseconds, the window of Streams.ReplayEvents
DayMs == 86400000

\* ------------------------------------------------------------- universes
Reqs == {"r1"}
Entities == {"e1", "e2"}
Clients == {"cl1"}
CallIds == 1..MaxCalls
PubIds == 1..MaxPubs
ConnIds == 1..MaxConns
Users == {"u1"}
Flows == {"f1"}
FlowCallIds == 1..MaxFlowCalls
\* the call slot of the recovery pass (RecoverFlows calls the service itself)
RecoveryCall == 0
FlowSlots == {RecoveryCall} \cup FlowCallIds

Null == "-"

\* model.Status, plus NONE for "no row with this id"
StatusPending == "PENDING"
StatusClaimed == "CLAIMED"
StatusAnswered == "ANSWERED"
StatusCancelled == "CANCELLED"
StatusExpired == "EXPIRED"
NoRow == "NONE"

\* model.FlowStatus
FlowStatusRunning == "RUNNING"
FlowStatusSuspended == "SUSPENDED"
FlowStatusCompleted == "COMPLETED"
FlowStatusCancelled == "CANCELLED"
FlowStatusFailed == "FAILED"

\* model.SchemaKind
SchemaKindJSON == "jsonschema"
SchemaKindExample == "jsonexample"
SchemaKindRef == "ref"

Payloads == {"valid", "invalid"}

\* channel names: "entity:<id>", "request:<id>", "requestor:<id>"
EntityChannel(e) == <<"entity", e>>
RequestChannel(r) == <<"request", r>>
RequestorChannel(c) == <<"requestor", c>>
Channels ==
  {EntityChannel(e) : e \in Entities} \cup {RequestChannel(r) : r \in Reqs}
    \cup {RequestorChannel(c) : c \in Clients}

VARIABLES
  requests,    \* table requests: id -> row (status NONE: no row)
  responses,   \* table responses: set of rows
  tasks,       \* asynq queue: scheduled tasks not yet picked up
  calls,       \* running service calls and job handlers: slot -> frame
  seqCounter,  \* Redis keys seq:<channel>
  stream,      \* Redis streams stream:<channel>
  clock,       \* wall clock, milliseconds
  hubQ,        \* Hub.publish, the hub's buffered channel of events
  pubs,        \* Bus.Publish calls in progress: slot -> frame
  conns,       \* websocket connections (ws.Conn): slot -> connection
  hubConns,    \* Hub.conns
  hubSubs,     \* Hub.subs: channel -> connections
  ackPos,      \* Redis keys ack:<channel>:<connectionID>
  crashed,     \* the process has panicked
  disc,        \* what was acknowledged and persisted at the last disconnect
  flows,       \* table flows: id -> row (status NONE: no row)
  fcalls,      \* running flow service calls: slot -> frame
  recovery,    \* the RecoverFlows pass run at startup
  compiler,    \* the schema.Compiler: its allowlist and its cache
  prepared,    \* the last Compiler.Prepare call: its schema and its error
  reminders    \* table reminders: set of rows

reqVars == <<requests, responses, tasks, calls>>
busVars == <<seqCounter, stream, clock, hubQ>>
evVars == <<pubs, conns, hubConns, hubSubs, ackPos, crashed, disc>>
flowVars == <<flows, fcalls, recovery>>
schemaVars == <<compiler, prepared>>
vars ==
  <<requests, responses, tasks, calls, seqCounter, stream, clock, hubQ,
    pubs, conns, hubConns, hubSubs, ackPos, crashed, disc, flows, fcalls, recovery,
    compiler, prepared, reminders>>

\* ------------------------------------------------------------ event log
\* Redis XADD with ID "*": <ms>-<n>; n counts the entries added in the same
\* millisecond as the stream's top entry (the top's ms is kept if the clock
\* is not ahead of it).
NextStreamID(entries, now) ==
  IF Len(entries) = 0 \/ now > entries[Len(entries)].ms
    THEN [ms |-> now, n |-> 0]
    ELSE [ms |-> entries[Len(entries)].ms, n |-> entries[Len(entries)].n + 1]

\* Streams.getNextSequence: INCR seq:<channel>
getNextSequence(counter, ch) == counter[ch] + 1

\* Streams.PublishEvent, the value returned: the INCR value unless the
\* sequence part of the new stream ID is positive, which then replaces it.
PublishedSeq(incr, id) == IF id.n > 0 THEN id.n ELSE incr

\* Streams.PublishEvent, the entry written: the event with seq (the INCR
\* value) and channel added, under the generated ID.
StreamEntry(id, incr, ev) == [ms |-> id.ms, n |-> id.n, seq |-> incr, ev |-> ev]

\* Hub.Publish: non-blocking send on the hub's channel, dropped when full.
HubEnqueue(q, ch, seq, ev) ==
  IF Len(q) < HubCap THEN Append(q, [channel |-> ch, seq |-> seq, ev |-> ev]) ELSE q

\* The event-log state a publication reads and writes.
BusState == [seqCounter |-> seqCounter, stream |-> stream, hubQ |-> hubQ]

\* Bus.Publish run by one caller without interruption:
\* PublishEvent (INCR, XADD), then Hub.Publish with the returned seq.
Publish(b, ch, ev) ==
  LET incr == getNextSequence(b.seqCounter, ch)
      id == NextStreamID(b.stream[ch], clock)
  IN [seqCounter |-> [b.seqCounter EXCEPT ![ch] = incr],
      stream |-> [b.stream EXCEPT ![ch] = Append(@, StreamEntry(id, incr, ev))],
      hubQ |-> HubEnqueue(b.hubQ, ch, PublishedSeq(incr, id), ev)]

SetBus(b) ==
  /\ seqCounter' = b.seqCounter
  /\ stream' = b.stream
  /\ hubQ' = b.hubQ
  /\ UNCHANGED clock

Event(type, r) == [type |-> type, requestId |-> r]

\* ------------------------------------------------------------ call frames
IdleCall ==
  [op |-> "idle", pc |-> "idle", req |-> Null, by |-> Null, payload |-> Null,
   seen |-> Null, result |-> Null]

\* the process has finished its startup recovery and serves its clients
Serving == recovery.pc = "idle"

\* slots are taken in order (they are interchangeable)
Free(c) ==
  /\ calls[c].op = "idle"
  /\ \A d \in CallIds : d < c => calls[d].op # "idle"

Done(c, result) == [calls EXCEPT ![c].pc = "done", ![c].result = result]
Goto(c, pc) == [calls EXCEPT ![c].pc = pc]
At(c, op, pc) == calls[c].op = op /\ calls[c].pc = pc

\* Queries.UpdateRequestStatus: UPDATE requests SET status = $2 WHERE id = $1
UpdateRequestStatus(rows, id, status) ==
  IF rows[id].status = NoRow THEN rows ELSE [rows EXCEPT ![id].status = status]

\* Queries.ClaimRequest as mutated: the UPDATE without "AND status = 'PENDING'"
ClaimRowsAffected_NoPredicate(rows, id) ==
  IF rows[id].status # NoRow THEN 1 ELSE 0

\* Queries.ClaimRequest: rows affected by
\* UPDATE requests SET status = 'CLAIMED' WHERE id = $1 AND status = 'PENDING'
ClaimRowsAffected(rows, id) ==
  IF rows[id].status = StatusPending THEN 1 ELSE 0

\* Compiler.Validate as mutated: every value passes
Validate_AcceptsAll(kind, payload) == TRUE

\* Compiler.Validate: jsonexample is never validated
Validate(kind, payload) == kind = SchemaKindExample \/ payload = "valid"

\* a Bus.Publish call that has not started
IdlePub == [pc |-> "idle", channel |-> Null, ev |-> Null, incr |-> 0, seq |-> 0]

\* no resume handled yet
NoReplay == [done |-> FALSE, channel |-> <<>>, since |-> 0, seqs |-> <<>>, sent |-> 0]

\* no session has dropped yet
NoDisc ==
  [set |-> FALSE, ack |-> [ch \in Channels |-> 0], seqs |-> [ch \in Channels |-> {}]]

\* flows.cursor: the keys the runner, AwaitInput and ResumeFlow use;
\* pending lists the ids of the requests awaited (empty: no such key)
NoEvent == [type |-> Null, requestId |-> Null]
EmptyCursor == [step |-> "", lastEvent |-> NoEvent, pending |-> <<>>]

NoFlow == [status |-> NoRow, owner |-> Null, cursor |-> EmptyCursor]

\* a flow service call that has not started. cursor: the call's copy of the
\* flow's cursor; outcome: what the runner returned to it; event: the event
\* and data arguments of ResumeFlow.
IdleFlowCall ==
  [op |-> "idle", pc |-> "idle", flow |-> Null, owner |-> Null,
   cursor |-> EmptyCursor, outcome |-> Null, event |-> NoEvent]

\* RecoverFlows is not running (the process serves). list: the flows read
\* by GetFlowsByStatus still to be handled; i, allAnswered: the loop over
\* the head flow's cursor.pending. passes (not program state): for each
\* pass so far, the stored state before and after it and what the runner
\* returned in it.
NoRecovery ==
  [pc |-> "idle", list |-> <<>>, i |-> 0, allAnswered |-> TRUE, restarts |-> 0,
   passes |-> <<>>]

\* ws.NewConn, before Hub.Register ("new"); "open" once registered, "closed"
\* once unregistered. received: the event messages written to the socket;
\* replay: the last resume handled for it. sendOpen: conn.send has not been
\* closed; evicting: Hub.Run has closed it and is about to call unregister.
NewConn ==
  [state |-> "new", userID |-> "u1", subs |-> {}, send |-> <<>>, sendOpen |-> TRUE,
   evicting |-> FALSE, received |-> <<>>, replay |-> NoReplay, cmds |-> {}]

\* ---------------------------------------------------------- schema compiler
\* A URL (and an allowlist pattern) is the sequence of its parts: the origin,
\* then the parts of the path; a wildcard pattern ends in the part "*".
\* Equality and prefix of the strings are those of the sequences.
BadEscape == "%zz"

\* url.Parse: a malformed escape is an error
ParseOK(u) == \A i \in 1..Len(u) : u[i] # BadEscape

\* url.Parse(u).Host: empty for a reference without an origin
Host(u) ==
  IF Len(u) > 0 /\ u[1] = "https://a.com" THEN "a.com"
  ELSE IF Len(u) > 0 /\ u[1] = "https://b.com" THEN "b.com"
  ELSE ""

\* strings.HasPrefix
HasPrefix(u, prefix) == Len(prefix) <= Len(u) /\ SubSeq(u, 1, Len(prefix)) = prefix

\* matchesPattern: exact; a pattern ending in "*" by prefix only; else same host
matchesPattern(urlStr, pattern) ==
  IF urlStr = pattern THEN TRUE
  ELSE IF Len(pattern) > 0 /\ pattern[Len(pattern)] = "*"
    THEN HasPrefix(urlStr, SubSeq(pattern, 1, Len(pattern) - 1))
  ELSE ParseOK(urlStr) /\ ParseOK(pattern) /\ Host(urlStr) = Host(pattern)

\* Compiler.isRefAllowed
isRefAllowed(refAllowlist, refURL) ==
  IF Len(refAllowlist) = 0 THEN TRUE
  ELSE \E i \in 1..Len(refAllowlist) : matchesPattern(refURL, refAllowlist[i])

\* a JSON object without a string-valued "$ref" member (an array, too)
NoRef == <<Null>>

\* A schema document is a tree: ref is the node's "$ref" string, kids are
\* its other object and array values. valid (on the root): the jsonschema
\* library compiles the document.
NoSchema == [ref |-> NoRef, kids |-> <<>>, valid |-> TRUE]

\* Compiler.validateRefs as mutated: nested values are not visited
validateRefs_TopLevelOnly(refAllowlist, v) ==
  v.ref # NoRef => isRefAllowed(refAllowlist, v.ref)

RECURSIVE validateRefs(_, _)
\* Compiler.validateRefs: TRUE when it returns nil
validateRefs(refAllowlist, v) ==
  /\ v.ref # NoRef => isRefAllowed(refAllowlist, v.ref)
  /\ \A i \in 1..Len(v.kids) : validateRefs(refAllowlist, v.kids[i])

\* Compiler.key: json.Marshal writes an object's members in key order, so
\* equal documents have equal keys and different documents different ones
key(schema) == [ref |-> schema.ref, kids |-> schema.kids, valid |-> schema.valid]

\* expirable.LRU.Get
CacheGet(cache, k) == \E i \in 1..Len(cache) : cache[i] = k

\* expirable.LRU.Add: the newest entry first, the oldest evicted at capacity
CacheAdd(cache, k) ==
  LET all == <<k>> \o cache
  IN SubSeq(all, 1, IF Len(all) < CacheSize THEN Len(all) ELSE CacheSize)

\* Compiler.Prepare: the error returned and the cache afterwards
Prepare(c, schema) ==
  IF CacheGet(c.cache, key(schema))
    THEN [err |-> "ok", cache |-> c.cache]
  ELSE IF Len(c.refAllowlist) > 0 /\ ~validateRefs(c.refAllowlist, schema)
    THEN [err |-> "ref-not-allowed", cache |-> c.cache]
  ELSE IF ~schema.valid
    THEN [err |-> "compile-failed", cache |-> c.cache]
  ELSE [err |-> "ok", cache |-> CacheAdd(c.cache, key(schema))]

\* no Prepare call yet
NoPrepare == [called |-> FALSE, schema |-> NoSchema, err |-> Null]

Init ==
  /\ requests = [r \in Reqs |->
       [status |-> NoRow, schemaKind |-> Null, entity |-> Null,
        createdBy |-> Null, deadline |-> Null, flowId |-> Null]]
  /\ responses = {}
  /\ tasks = {}
  /\ calls = [c \in CallIds |-> IdleCall]
  /\ seqCounter = [ch \in Channels |-> 0]
  /\ stream = [ch \in Channels |-> <<>>]
  /\ clock = DayMs
  /\ hubQ = <<>>
  /\ pubs = [p \in PubIds |-> IdlePub]
  /\ conns = [c \in ConnIds |-> NewConn]
  /\ hubConns = {}
  /\ hubSubs = [ch \in Channels |-> {}]
  /\ ackPos = [ch \in Channels |-> [u \in Users |-> 0]]
  /\ crashed = FALSE
  /\ disc = NoDisc
  /\ flows = [f \in Flows |-> NoFlow]
  /\ fcalls = [c \in FlowSlots |-> IdleFlowCall]
  /\ recovery = NoRecovery
  /\ compiler = [refAllowlist |-> <<>>, cache |-> <<>>]
  /\ prepared = NoPrepare
  /\ reminders = {}

\* In the request handlers below the publications that end a call are one
\* step: they read nothing another call writes but the event log itself, and
\* the interleaving of concurrent publishers is the subject of SpecEv.

\* ------------------------------------------------ RequestService.CreateRequest
\* ResolveEntity, INSERT with status PENDING; CreateRequestParams.FlowID
\* is never filled in, so flow_id is NULL
CreateRequestInsert(c, r, target, kind, deadline) ==
  /\ Serving
  /\ Free(c)
  /\ requests[r].status = NoRow
  /\ LET frame == [IdleCall EXCEPT !.op = "create", !.req = r]
     IN IF target \notin Entities
          THEN /\ calls' = [calls EXCEPT ![c] =
                              [frame EXCEPT !.pc = "done", !.result = "entity-not-found"]]
               /\ UNCHANGED requests
          ELSE /\ requests' = [requests EXCEPT ![r] =
                     [status |-> StatusPending, schemaKind |-> kind, entity |-> target,
                      createdBy |-> "cl1", deadline |-> deadline, flowId |-> Null]]
               /\ calls' = [calls EXCEPT ![c] = [frame EXCEPT !.pc = "publish"]]
  /\ UNCHANGED <<responses, tasks, busVars>>
  /\ UNCHANGED <<evVars, flowVars>>
  /\ UNCHANGED <<schemaVars, reminders>>

\* task types registered in JobServer.Start that change a request's status
TaskKinds == {"deadline:expire", "request:autocancel"}

\* jobs.ScheduleDeadlineExpiry: enqueue deadline:expire unless deadlineAt is past
ScheduleDeadlineExpiry(q, r, deadline) ==
  IF deadline = "future" THEN q \cup {[kind |-> "deadline:expire", req |-> r]} ELSE q

\* jobs.ScheduleAutoCancel: enqueue request:autocancel
ScheduleAutoCancel(q, r) == q \cup {[kind |-> "request:autocancel", req |-> r]}

\* PublishEntity and PublishRequestor (request.created), then the background
\* jobs (req.DeadlineAt != nil); CreateRequest never sets AutocancelGrace, so
\* it schedules no auto-cancel
CreateRequestPublish(c) ==
  /\ At(c, "create", "publish")
  /\ LET r == calls[c].req
     IN /\ SetBus(Publish(Publish(BusState,
               EntityChannel(requests[r].entity), Event("request.created", r)),
               RequestorChannel(requests[r].createdBy), Event("request.created", r)))
        /\ tasks' = IF requests[r].deadline # "none"
                      THEN ScheduleDeadlineExpiry(tasks, r, requests[r].deadline)
                      ELSE tasks
  /\ calls' = Done(c, "ok")
  /\ UNCHANGED <<requests, responses>>
  /\ UNCHANGED <<evVars, flowVars>>
  /\ UNCHANGED <<schemaVars, reminders>>

\* a client of the job queue schedules auto-cancel for a request
\* (jobs.ScheduleAutoCancel is exported; test/jobs_test.go calls it directly)
ClientScheduleAutoCancel(r) ==
  /\ requests[r].status # NoRow
  /\ [kind |-> "request:autocancel", req |-> r] \notin tasks
  /\ \E c \in CallIds : calls[c].op = "idle"
  /\ tasks' = ScheduleAutoCancel(tasks, r)
  /\ UNCHANGED <<requests, responses, calls, busVars>>
  /\ UNCHANGED <<evVars, flowVars>>
  /\ UNCHANGED <<schemaVars, reminders>>

\* ------------------------------------------------- RequestService.ClaimRequest
\* Queries.ClaimRequest; pgx.ErrNoRows when no row was updated. who: the
\* responder that sent the claim; neither handler passes it to the service
\* and no column stores it, so it stays in the caller's frame only.
ClaimRequestUpdate(c, r, who) ==
  /\ Serving
  /\ Free(c)
  /\ LET frame == [IdleCall EXCEPT !.op = "claim", !.req = r, !.by = who,
                                   !.seen = requests[r].status]
     IN IF ClaimRowsAffected(requests, r) = 0
          THEN /\ calls' = [calls EXCEPT ![c] =
                              [frame EXCEPT !.pc = "done", !.result = "claim-conflict"]]
               /\ UNCHANGED requests
          ELSE /\ requests' = [requests EXCEPT ![r].status = StatusClaimed]
               /\ calls' = [calls EXCEPT ![c] = [frame EXCEPT !.pc = "publish"]]
  /\ UNCHANGED <<responses, tasks, busVars>>
  /\ UNCHANGED <<evVars, flowVars>>
  /\ UNCHANGED <<schemaVars, reminders>>

\* PublishRequest and PublishEntity (request.claimed)
ClaimRequestPublish(c) ==
  /\ At(c, "claim", "publish")
  /\ LET r == calls[c].req
     IN SetBus(Publish(Publish(BusState,
            RequestChannel(r), Event("request.claimed", r)),
            EntityChannel(requests[r].entity), Event("request.claimed", r)))
  /\ calls' = Done(c, "ok")
  /\ UNCHANGED <<requests, responses, tasks>>
  /\ UNCHANGED <<evVars, flowVars>>
  /\ UNCHANGED <<schemaVars, reminders>>

\* ------------------------------------------------- RequestService.PostResponse
\* GetRequestByID, default answeredBy, GetEntityByID, Validate
PostResponseRead(c, r, by, payload) ==
  /\ Serving
  /\ Free(c)
  /\ LET frame == [IdleCall EXCEPT !.op = "post", !.req = r, !.payload = payload,
                                   !.seen = requests[r].status]
         answeredBy == IF by = "" THEN requests[r].entity ELSE by
         fail(code) == [calls EXCEPT ![c] = [frame EXCEPT !.pc = "done", !.result = code]]
     IN calls' =
          IF requests[r].status = NoRow THEN fail("request-not-found")
          ELSE IF answeredBy \notin Entities THEN fail("entity-not-found")
          ELSE IF requests[r].schemaKind \in {SchemaKindJSON, SchemaKindRef}
                  /\ ~Validate(requests[r].schemaKind, payload)
            THEN fail("schema-violation")
          ELSE [calls EXCEPT ![c] = [frame EXCEPT !.pc = "insert", !.by = answeredBy]]
  /\ UNCHANGED <<requests, responses, tasks, busVars>>
  /\ UNCHANGED <<evVars, flowVars>>
  /\ UNCHANGED <<schemaVars, reminders>>

\* Queries.CreateResponse: INSERT INTO responses (the id is a fresh ULID)
PostResponseInsert(c) ==
  /\ At(c, "post", "insert")
  /\ responses' = responses \cup
       {[id |-> c, request |-> calls[c].req, answeredBy |-> calls[c].by,
         payload |-> calls[c].payload]}
  /\ calls' = Goto(c, "update")
  /\ UNCHANGED <<requests, tasks, busVars>>
  /\ UNCHANGED <<evVars, flowVars>>
  /\ UNCHANGED <<schemaVars, reminders>>

\* UpdateRequestStatus(requestID, ANSWERED)
PostResponseUpdate(c) ==
  /\ At(c, "post", "update")
  /\ requests' = UpdateRequestStatus(requests, calls[c].req, StatusAnswered)
  /\ calls' = Goto(c, "publish")
  /\ UNCHANGED <<responses, tasks, busVars>>
  /\ UNCHANGED <<evVars, flowVars>>
  /\ UNCHANGED <<schemaVars, reminders>>

\* PublishRequest and PublishRequestor (request.answered)
PostResponsePublish(c) ==
  /\ At(c, "post", "publish")
  /\ LET r == calls[c].req
     IN SetBus(Publish(Publish(BusState,
            RequestChannel(r), Event("request.answered", r)),
            RequestorChannel(requests[r].createdBy), Event("request.answered", r)))
  /\ calls' = Done(c, "ok")
  /\ UNCHANGED <<requests, responses, tasks>>
  /\ UNCHANGED <<evVars, flowVars>>
  /\ UNCHANGED <<schemaVars, reminders>>

\* ------------------------------------------------ RequestService.CancelRequest
\* UpdateRequestStatus(id, CANCELLED); called for a request that exists
CancelRequestUpdate(c, r) ==
  /\ Serving
  /\ Free(c)
  /\ requests[r].status # NoRow
  /\ requests' = UpdateRequestStatus(requests, r, StatusCancelled)
  /\ calls' = [calls EXCEPT ![c] =
       [IdleCall EXCEPT !.op = "cancel", !.req = r, !.seen = requests[r].status,
                        !.pc = "publish"]]
  /\ UNCHANGED <<responses, tasks, busVars>>
  /\ UNCHANGED <<evVars, flowVars>>
  /\ UNCHANGED <<schemaVars, reminders>>

\* GetRequestByID, PublishRequest and PublishEntity (request.cancelled)
CancelRequestPublish(c) ==
  /\ At(c, "cancel", "publish")
  /\ LET r == calls[c].req
     IN SetBus(Publish(Publish(BusState,
            RequestChannel(r), Event("request.cancelled", r)),
            EntityChannel(requests[r].entity), Event("request.cancelled", r)))
  /\ calls' = Done(c, "ok")
  /\ UNCHANGED <<requests, responses, tasks>>
  /\ UNCHANGED <<evVars, flowVars>>
  /\ UNCHANGED <<schemaVars, reminders>>

\* ------------------------------------------------------------ jobs.JobServer
\* a worker picks up a due task; handleDeadlineExpiry and handleAutoCancel
\* read the request and return unless it is PENDING
JobRead(c, t) ==
  /\ Free(c)
  /\ t \in tasks
  /\ tasks' = tasks \ {t}
  /\ LET frame == [IdleCall EXCEPT !.op = t.kind, !.req = t.req,
                                   !.seen = requests[t.req].status]
     IN calls' = [calls EXCEPT ![c] =
          IF requests[t.req].status # StatusPending
            THEN [frame EXCEPT !.pc = "done", !.result = "skipped"]
            ELSE [frame EXCEPT !.pc = "update"]]
  /\ UNCHANGED <<requests, responses, busVars>>
  /\ UNCHANGED <<evVars, flowVars>>
  /\ UNCHANGED <<schemaVars, reminders>>

\* handleDeadlineNotification for the deadline:notify task CreateRequest
\* scheduled for a request with a deadline ahead. The queue delivers a task
\* at least once: it runs again when the worker stopped before the task was
\* marked done. Unless the request is PENDING the handler returns;
\* otherwise PublishEntity(request.deadline_approaching).
DeadlineNotification(c, r) ==
  /\ Free(c)
  /\ requests[r].status # NoRow
  /\ requests[r].deadline = "future"
  /\ \A d \in CallIds : ~(At(d, "create", "publish") /\ calls[d].req = r)
  /\ LET frame == [IdleCall EXCEPT !.op = "deadline:notify", !.req = r,
                                   !.seen = requests[r].status, !.pc = "done"]
     IN IF requests[r].status # StatusPending
          THEN /\ calls' = [calls EXCEPT ![c] = [frame EXCEPT !.result = "skipped"]]
               /\ UNCHANGED busVars
          ELSE /\ calls' = [calls EXCEPT ![c] = [frame EXCEPT !.result = "ok"]]
               /\ SetBus(Publish(BusState, EntityChannel(requests[r].entity),
                                 Event("request.deadline_approaching", r)))
  /\ UNCHANGED <<requests, responses, tasks>>
  /\ UNCHANGED <<evVars, flowVars>>
  /\ UNCHANGED <<schemaVars, reminders>>

\* handleDeadlineExpiry: UpdateRequestStatus(requestID, "EXPIRED")
DeadlineExpiryUpdate(c) ==
  /\ At(c, "deadline:expire", "update")
  /\ requests' = UpdateRequestStatus(requests, calls[c].req, StatusExpired)
  /\ calls' = Goto(c, "publish")
  /\ UNCHANGED <<responses, tasks, busVars>>
  /\ UNCHANGED <<evVars, flowVars>>
  /\ UNCHANGED <<schemaVars, reminders>>

\* handleDeadlineExpiry: PublishEntity(request.expired)
DeadlineExpiryPublish(c) ==
  /\ At(c, "deadline:expire", "publish")
  /\ LET r == calls[c].req
     IN SetBus(Publish(BusState,
            EntityChannel(requests[r].entity), Event("request.expired", r)))
  /\ calls' = Done(c, "ok")
  /\ UNCHANGED <<requests, responses, tasks>>
  /\ UNCHANGED <<evVars, flowVars>>
  /\ UNCHANGED <<schemaVars, reminders>>

\* handleAutoCancel: UpdateRequestStatus(requestID, "CANCELLED")
AutoCancelUpdate(c) ==
  /\ At(c, "request:autocancel", "update")
  /\ requests' = UpdateRequestStatus(requests, calls[c].req, StatusCancelled)
  /\ calls' = Goto(c, "publish")
  /\ UNCHANGED <<responses, tasks, busVars>>
  /\ UNCHANGED <<evVars, flowVars>>
  /\ UNCHANGED <<schemaVars, reminders>>

\* handleAutoCancel: PublishRequest and PublishEntity (request.cancelled)
AutoCancelPublish(c) ==
  /\ At(c, "request:autocancel", "publish")
  /\ LET r == calls[c].req
     IN SetBus(Publish(Publish(BusState,
            RequestChannel(r), Event("request.cancelled", r)),
            EntityChannel(requests[r].entity), Event("request.cancelled", r)))
  /\ calls' = Done(c, "ok")
  /\ UNCHANGED <<requests, responses, tasks>>
  /\ UNCHANGED <<evVars, flowVars>>
  /\ UNCHANGED <<schemaVars, reminders>>

\* --------------------------------------- request lifecycle specification
NextReq ==
  \/ \E c \in CallIds, r \in Reqs, target \in {"e1", "ghost"},
        kind \in {SchemaKindJSON, SchemaKindExample}, deadline \in {"none", "future"} :
       CreateRequestInsert(c, r, target, kind, deadline)
  \/ \E c \in CallIds : CreateRequestPublish(c)
  \/ \E r \in Reqs : ClientScheduleAutoCancel(r)
  \/ \E c \in CallIds, r \in Reqs, who \in Entities : ClaimRequestUpdate(c, r, who)
  \/ \E c \in CallIds : ClaimRequestPublish(c)
  \/ \E c \in CallIds, r \in Reqs, by \in {"", "e2", "ghost"}, payload \in Payloads :
       PostResponseRead(c, r, by, payload)
  \/ \E c \in CallIds : PostResponseInsert(c)
  \/ \E c \in CallIds : PostResponseUpdate(c)
  \/ \E c \in CallIds : PostResponsePublish(c)
  \/ \E c \in CallIds, r \in Reqs : CancelRequestUpdate(c, r)
  \/ \E c \in CallIds : CancelRequestPublish(c)
  \/ \E c \in CallIds, kind \in TaskKinds, r \in Reqs :
       JobRead(c, [kind |-> kind, req |-> r])
  \/ \E c \in CallIds, r \in Reqs : DeadlineNotification(c, r)
  \/ \E c \in CallIds : DeadlineExpiryUpdate(c)
  \/ \E c \in CallIds : DeadlineExpiryPublish(c)
  \/ \E c \in CallIds : AutoCancelUpdate(c)
  \/ \E c \in CallIds : AutoCancelPublish(c)

SpecReq == Init /\ [][NextReq]_vars

\* ================================================== request lifecycle claims
TerminalStatus == {StatusAnswered, StatusCancelled, StatusExpired}

\* the state graph: create, claim, postResponse, cancel, expire
StatusEdges ==
  {<<NoRow, StatusPending>>, <<StatusPending, StatusClaimed>>,
   <<StatusPending, StatusAnswered>>, <<StatusClaimed, StatusAnswered>>,
   <<StatusPending, StatusCancelled>>, <<StatusClaimed, StatusCancelled>>,
   <<StatusPending, StatusExpired>>}

\* C1: every change of a request's status follows an edge of the state graph
\* PENDING->CLAIMED, PENDING|CLAIMED->ANSWERED, PENDING|CLAIMED->CANCELLED,
\* PENDING->EXPIRED; a status that is ANSWERED, CANCELLED or EXPIRED never
\* changes again.
C1_StatusPath ==
  [][\A r \in Reqs :
       requests'[r].status # requests[r].status
         => <<requests[r].status, requests'[r].status>> \in StatusEdges]_vars

\* a claim call whose conditional UPDATE changed a row: it returns success
ClaimSucceeded(c) ==
  /\ calls[c].op = "claim"
  /\ calls[c].pc = "publish" \/ calls[c].result = "ok"

\* C2: of all the claim calls made for a request, in any interleaving, at most
\* one returns success; every other one observes claim-conflict.
C2_AtMostOneClaim ==
  \A r \in Reqs :
    LET claimers == {c \in CallIds : calls[c].op = "claim" /\ calls[c].req = r}
    IN /\ Cardinality({c \in claimers : ClaimSucceeded(c)}) <= 1
       /\ \A c \in claimers : ~ClaimSucceeded(c) => calls[c].result = "claim-conflict"

\* C2 witness: a second claimer runs its UPDATE while the first, which won,
\* has not yet returned, and gets claim-conflict.
C2_Witness ==
  \E c, d \in CallIds :
    /\ calls[c].op = "claim" /\ calls[c].pc = "publish"
    /\ calls[d].op = "claim" /\ calls[d].req = calls[c].req
    /\ calls[d].seen = StatusClaimed /\ calls[d].result = "claim-conflict"

\* C3: a cancel or postResponse invoked on a request that is already ANSWERED,
\* CANCELLED or EXPIRED fails and does nothing else: it never goes on to write
\* a status, insert a Response or publish an event.
C3_TerminalRejected ==
  \A c \in CallIds :
    (calls[c].op \in {"cancel", "post"} /\ calls[c].seen \in TerminalStatus)
      => (calls[c].pc = "done" /\ calls[c].result \notin {Null, "ok"})

\* C4: when deadline-expire or auto-cancel applies its status UPDATE, the
\* request is PENDING at that moment, whatever ran since the handler read it.
C4_SchedulerOnlyPending ==
  [][\A c \in CallIds :
       (/\ calls[c].op \in {"deadline:expire", "request:autocancel"}
        /\ calls[c].pc = "update"
        /\ calls'[c].pc # "update")
         => requests[calls[c].req].status = StatusPending]_vars

\* ============================================================ event fabric
\* Publishers run Bus.Publish statement by statement, the hub fans events
\* out to the sessions subscribed, sessions acknowledge, drop and resume.

PubChannels == {EntityChannel("e1")}

\* slots are taken in order (they are interchangeable)
FreePub(p) ==
  /\ pubs[p].pc = "idle"
  /\ \A q \in PubIds : q < p => pubs[q].pc # "idle"

\* Bus.Publish up to Streams.getNextSequence: INCR seq:<channel>
PubIncr(p, ch) ==
  /\ ~crashed
  /\ FreePub(p)
  /\ seqCounter' = [seqCounter EXCEPT ![ch] = getNextSequence(seqCounter, ch)]
  /\ pubs' = [pubs EXCEPT ![p] =
       [pc |-> "xadd", channel |-> ch, ev |-> Event("request.created", "r1"),
        incr |-> getNextSequence(seqCounter, ch), seq |-> 0]]
  /\ UNCHANGED <<reqVars, flowVars, stream, clock, hubQ>>
  /\ UNCHANGED <<conns, hubConns, hubSubs, ackPos, crashed, disc>>
  /\ UNCHANGED <<schemaVars, reminders>>

\* Streams.PublishEvent from XADD to its return
PubXAdd(p) ==
  /\ ~crashed
  /\ pubs[p].pc = "xadd"
  /\ LET ch == pubs[p].channel
         id == NextStreamID(stream[ch], clock)
     IN /\ stream' = [stream EXCEPT ![ch] = Append(@, StreamEntry(id, pubs[p].incr, pubs[p].ev))]
        /\ pubs' = [pubs EXCEPT ![p].pc = "hub", ![p].seq = PublishedSeq(pubs[p].incr, id)]
  /\ UNCHANGED <<reqVars, flowVars, seqCounter, clock, hubQ>>
  /\ UNCHANGED <<conns, hubConns, hubSubs, ackPos, crashed, disc>>
  /\ UNCHANGED <<schemaVars, reminders>>

\* Bus.Publish, the end: Hub.Publish of the event with the returned seq
PubHub(p) ==
  /\ ~crashed
  /\ pubs[p].pc = "hub"
  /\ hubQ' = HubEnqueue(hubQ, pubs[p].channel, pubs[p].seq, pubs[p].ev)
  /\ pubs' = [pubs EXCEPT ![p].pc = "done"]
  /\ UNCHANGED <<reqVars, flowVars, seqCounter, stream, clock>>
  /\ UNCHANGED <<conns, hubConns, hubSubs, ackPos, crashed, disc>>
  /\ UNCHANGED <<schemaVars, reminders>>

\* the wall clock: a millisecond passes
Tick ==
  /\ clock % DayMs < MaxTicks
  /\ clock' = clock + 1
  /\ UNCHANGED <<reqVars, flowVars, seqCounter, stream, hubQ, evVars>>
  /\ UNCHANGED <<schemaVars, reminders>>

\* the wall clock: a day passes
TickDay ==
  /\ clock \div DayMs < 1 + MaxDays
  /\ clock' = clock + DayMs
  /\ UNCHANGED <<reqVars, flowVars, seqCounter, stream, hubQ, evVars>>
  /\ UNCHANGED <<schemaVars, reminders>>

\* a message without a "data" member
NoData == [type |-> Null, requestId |-> Null]

\* ------------------------------------------------------ websocket sessions
\* The message Hub.Run writes for an event taken from Hub.publish: the
\* event's own fields with seq added. src (not part of the message): the
\* channel whose fan-out produced it.
LiveMessage(event) ==
  [type |-> event.ev.type, channel |-> Null, seq |-> event.seq, data |-> NoData,
   requestId |-> event.ev.requestId, src |-> event.channel]

\* The message Hub.Resume writes for a replayed StreamEvent.
ReplayMessage(e) ==
  [type |-> "event", channel |-> e.channel, seq |-> e.seq, data |-> e.ev,
   requestId |-> Null, src |-> e.channel]

\* Conn.sendAck
AckMessage(what, ch) ==
  [type |-> "ack", channel |-> ch, seq |-> 0, data |-> what, requestId |-> Null,
   src |-> Null]

\* select { case conn.send <- msg: default: }
TrySend(q, msg) == IF Len(q) < SendCap THEN Append(q, msg) ELSE q

\* wsHandler: NewConn, Hub.Register, the pumps started.
Register(c) ==
  /\ ~crashed
  /\ conns[c].state = "new"
  /\ conns' = [conns EXCEPT ![c].state = "open"]
  /\ hubConns' = hubConns \cup {c}
  /\ UNCHANGED <<reqVars, flowVars, busVars, pubs, hubSubs, ackPos, crashed, disc>>
  /\ UNCHANGED <<schemaVars, reminders>>

\* wsHandler for a client that has one session at a time.
Connect(c) ==
  /\ \A d \in ConnIds : d < c => conns[d].state = "closed"
  /\ Register(c)

\* handleMessage "subscribe": Hub.Subscribe, then sendAck("subscribed")
Subscribe(c, ch) ==
  /\ ~crashed
  /\ conns[c].state = "open"
  /\ ch \notin conns[c].subs
  /\ hubSubs' = [hubSubs EXCEPT ![ch] = @ \cup {c}]
  /\ conns' = [conns EXCEPT ![c].subs = @ \cup {ch},
                            ![c].send = IF conns[c].sendOpen
                                          THEN TrySend(@, AckMessage("subscribed", ch))
                                          ELSE @]
  /\ crashed' = ~conns[c].sendOpen
  /\ UNCHANGED <<reqVars, flowVars, busVars, pubs, hubConns, ackPos, disc>>
  /\ UNCHANGED <<schemaVars, reminders>>

\* Hub.Run, one iteration: the event at the head of Hub.publish is sent to
\* the connections subscribed to its channel, in the order the map yields
\* them. At the first one whose send buffer is full the loop closes
\* conn.send; the connections before it in that order have got the event.
HubRun ==
  /\ ~crashed
  /\ Len(hubQ) > 0
  /\ \A c \in ConnIds : ~conns[c].evicting
  /\ LET event == Head(hubQ)
         targets == hubSubs[event.channel]
         full == {c \in targets : Len(conns[c].send) >= SendCap}
     IN /\ hubQ' = Tail(hubQ)
        /\ IF full = {}
             THEN conns' = [c \in ConnIds |->
                    IF c \in targets
                      THEN [conns[c] EXCEPT !.send = Append(@, LiveMessage(event))]
                      ELSE conns[c]]
             ELSE \E victim \in full : \E before \in SUBSET (targets \ full) :
                    conns' = [c \in ConnIds |->
                      IF c = victim
                        THEN [conns[c] EXCEPT !.sendOpen = FALSE, !.evicting = TRUE]
                      ELSE IF c \in before
                        THEN [conns[c] EXCEPT !.send = Append(@, LiveMessage(event))]
                      ELSE conns[c]]
  /\ UNCHANGED <<reqVars, flowVars, seqCounter, stream, clock, pubs, hubConns, hubSubs, ackPos, crashed, disc>>
  /\ UNCHANGED <<schemaVars, reminders>>

\* Hub.Run after close(conn.send): Hub.unregister(conn) finds the
\* connection registered, deletes it and closes conn.send a second time,
\* which panics.
HubEvict(c) ==
  /\ ~crashed
  /\ conns[c].evicting
  /\ conns' = [conns EXCEPT ![c].evicting = FALSE]
  /\ hubConns' = hubConns \ {c}
  /\ crashed' = (c \in hubConns)
  /\ UNCHANGED <<reqVars, flowVars, busVars, pubs, hubSubs, ackPos, disc>>
  /\ UNCHANGED <<schemaVars, reminders>>

IsEventMessage(m) == m.type # "ack"

\* Conn.WritePump, one iteration: the messages queued on conn.send are
\* written to the socket in order, in one frame.
WritePump(c) ==
  /\ ~crashed
  /\ conns[c].state = "open"
  /\ Len(conns[c].send) > 0
  /\ conns' = [conns EXCEPT ![c].send = <<>>,
                            ![c].received = @ \o SelectSeq(conns[c].send, IsEventMessage)]
  /\ UNCHANGED <<reqVars, flowVars, busVars, pubs, hubConns, hubSubs, ackPos, crashed, disc>>
  /\ UNCHANGED <<schemaVars, reminders>>

\* the seqs of the event messages session c has been sent on channel ch
ReceivedSeqs(c, ch) ==
  {conns[c].received[i].seq :
     i \in {j \in 1..Len(conns[c].received) : conns[c].received[j].src = ch}}

\* handleMessage "ack" -> Hub.Acknowledge -> Streams.AcknowledgeSequence:
\* SET ack:<channel>:<userID> <seq>. A client acknowledges a seq it was sent.
Acknowledge(c, ch, sequence) ==
  /\ ~crashed
  /\ conns[c].state = "open"
  /\ sequence > 0
  /\ sequence \in ReceivedSeqs(c, ch)
  /\ ackPos' = [ackPos EXCEPT ![ch][conns[c].userID] = sequence]
  /\ UNCHANGED <<reqVars, flowVars, busVars, pubs, conns, hubConns, hubSubs, crashed, disc>>
  /\ UNCHANGED <<schemaVars, reminders>>

\* Redis stream IDs are ordered by milliseconds, then by the counter
IDAfter(e, ms, n) == e.ms > ms \/ (e.ms = ms /\ e.n > n)

\* XREAD COUNT <limit> STREAMS stream:<channel> <ms>-<n>: the first <limit>
\* entries whose ID is greater than <ms>-<n>
XRead(entries, ms, n, limit) ==
  LET after(e) == IDAfter(e, ms, n)
      found == SelectSeq(entries, after)
  IN SubSeq(found, 1, IF Len(found) < limit THEN Len(found) ELSE limit)

\* Streams.ReplayEvents: the start ID is "<now - 24h in ms>-<sinceSeq>"; each
\* entry read becomes a StreamEvent carrying the seq stored in the entry.
ReplayEvents(entries, ch, sinceSeq, limit, now) ==
  LET read == XRead(entries, now - DayMs, sinceSeq, limit)
  IN [i \in 1..Len(read) |-> [channel |-> ch, seq |-> read[i].seq, ev |-> read[i].ev]]

\* the loop of Hub.Resume: each event is queued on conn.send until the
\* buffer is full
RECURSIVE SendReplayed(_, _)
SendReplayed(q, events) ==
  IF Len(events) = 0 \/ Len(q) >= SendCap
    THEN q
    ELSE SendReplayed(Append(q, ReplayMessage(Head(events))), Tail(events))

\* what a client resumes from: the start, or the position it acknowledged
ResumeFrom(c, ch) == {0, ackPos[ch][conns[c].userID]}

\* handleMessage "resume" -> Hub.Resume(conn, channel, since), once in a
\* session. replay (not program state) keeps what this resume asked for
\* and read.
Resume(c, ch, since) ==
  /\ ~crashed
  /\ conns[c].state = "open"
  /\ ~conns[c].replay.done
  /\ since \in ResumeFrom(c, ch)
  /\ since >= 0
  /\ LET events == ReplayEvents(stream[ch], ch, since, ReplayLimit, clock)
         q == IF conns[c].sendOpen THEN SendReplayed(conns[c].send, events)
                                   ELSE conns[c].send
     IN /\ conns' = [conns EXCEPT
             ![c].send = q,
             ![c].replay = [done |-> TRUE, channel |-> ch, since |-> since,
                            seqs |-> [i \in 1..Len(events) |-> events[i].seq],
                            sent |-> Len(q) - Len(conns[c].send)]]
        /\ crashed' = (~conns[c].sendOpen /\ Len(events) > 0)
  /\ UNCHANGED <<reqVars, flowVars, busVars, pubs, hubConns, hubSubs, ackPos, disc>>
  /\ UNCHANGED <<schemaVars, reminders>>

\* the seqs stored in the entries of a stream
StoredSeqs(entries) == {entries[i].seq : i \in 1..Len(entries)}

\* The socket drops: ReadPump's deferred Hub.unregister and ws.Close. What
\* is still queued on conn.send is not written. unregister deletes the
\* connection, closes conn.send (a panic if Hub.Run has closed it already)
\* and removes the subscriptions. disc (not program state) records the
\* acknowledged positions and the persisted seqs at this moment.
Disconnect(c) ==
  /\ ~crashed
  /\ conns[c].state = "open"
  /\ hubConns' = hubConns \ {c}
  /\ IF conns[c].sendOpen
       THEN /\ hubSubs' = [ch \in Channels |->
                  IF ch \in conns[c].subs THEN hubSubs[ch] \ {c} ELSE hubSubs[ch]]
            /\ conns' = [conns EXCEPT ![c].state = "closed", ![c].sendOpen = FALSE,
                                      ![c].send = <<>>]
            /\ UNCHANGED crashed
       ELSE /\ crashed' = TRUE
            /\ UNCHANGED <<hubSubs, conns>>
  /\ disc' = [set |-> TRUE, ack |-> [ch \in Channels |-> ackPos[ch][conns[c].userID]],
              seqs |-> [ch \in Channels |-> StoredSeqs(stream[ch])]]
  /\ UNCHANGED <<reqVars, flowVars, busVars, pubs, ackPos>>
  /\ UNCHANGED <<schemaVars, reminders>>

\* ------------------------------------------- event fabric specification
NextEv ==
  \/ \E p \in PubIds, ch \in PubChannels : PubIncr(p, ch)
  \/ \E p \in PubIds : PubXAdd(p)
  \/ \E p \in PubIds : PubHub(p)
  \/ Tick
  \/ TickDay
  \/ \E c \in ConnIds : Connect(c)
  \/ \E c \in ConnIds, ch \in PubChannels : Subscribe(c, ch)
  \/ HubRun
  \/ \E c \in ConnIds : HubEvict(c)
  \/ \E c \in ConnIds : WritePump(c)
  \/ \E c \in ConnIds, ch \in PubChannels, sequence \in 1..MaxPubs : Acknowledge(c, ch, sequence)
  \/ \E c \in ConnIds, ch \in PubChannels, since \in 0..MaxPubs : Resume(c, ch, since)
  \/ \E c \in ConnIds : Disconnect(c)

SpecEv == Init /\ [][NextEv]_vars

\* ----------------------------------------- sessions side by side
\* sessions that are open at the same time, under the identity wsHandler
\* gave them
NextSess ==
  \/ \E p \in PubIds, ch \in PubChannels : PubIncr(p, ch)
  \/ \E p \in PubIds : PubXAdd(p)
  \/ \E p \in PubIds : PubHub(p)
  \/ Tick
  \/ \E c \in ConnIds : Register(c)
  \/ \E c \in ConnIds, ch \in PubChannels : Subscribe(c, ch)
  \/ HubRun
  \/ \E c \in ConnIds : HubEvict(c)
  \/ \E c \in ConnIds : WritePump(c)
  \/ \E c \in ConnIds, ch \in PubChannels, sequence \in 1..MaxPubs : Acknowledge(c, ch, sequence)
  \/ \E c \in ConnIds : Disconnect(c)

SpecSess == Init /\ [][NextSess]_vars

\* ====================================================== event fabric claims
\* the seq Streams.PublishEvent returned for the event stored in entry e
AssignedSeq(e) == PublishedSeq(e.seq, e)

\* C5: on each channel the seq numbers assigned to successively published
\* events increase by exactly one from each event to the next, whatever the
\* interleaving of the publishers.
C5_SeqNoGaps ==
  \A ch \in Channels : \A i \in 2..Len(stream[ch]) :
    AssignedSeq(stream[ch][i]) = AssignedSeq(stream[ch][i - 1]) + 1

\* C6: the event messages a session is sent on one channel carry strictly
\* increasing seqs, re-delivery after a resume included.
C6_SessionOrder ==
  \A c \in ConnIds : \A i, j \in 1..Len(conns[c].received) :
    (i < j /\ conns[c].received[i].src = conns[c].received[j].src)
      => conns[c].received[i].seq < conns[c].received[j].seq

\* the seqs Hub.Resume queued for session c
ResumeDelivered(c) ==
  {conns[c].replay.seqs[i] : i \in 1..conns[c].replay.sent}

\* session c is the successor of a dropped session and has resumed from the
\* position N > 0 that was acknowledged when its predecessor dropped
ResumedFromLastAck(c) ==
  /\ conns[c].state = "open"
  /\ conns[c].replay.done
  /\ disc.set
  /\ disc.ack[conns[c].replay.channel] > 0
  /\ conns[c].replay.since = disc.ack[conns[c].replay.channel]

\* C7: after a session dropped having last acknowledged seq N on a channel,
\* resume(channel, N) on reconnection delivers every event of the channel
\* with seq > N that was persisted before the drop.
C7_ResumeComplete ==
  \A c \in ConnIds : ResumedFromLastAck(c) =>
    \A s \in disc.seqs[conns[c].replay.channel] :
      s > conns[c].replay.since => s \in ResumeDelivered(c)

\* C8: a replay returns only entries with seq greater than the lower bound
\* given, in increasing seq order.
C8_ReplayAfterSince ==
  \A c \in ConnIds : conns[c].replay.done =>
    /\ \A i \in 1..Len(conns[c].replay.seqs) :
         conns[c].replay.seqs[i] > conns[c].replay.since
    /\ \A i \in 2..Len(conns[c].replay.seqs) :
         conns[c].replay.seqs[i - 1] < conns[c].replay.seqs[i]

\* ============================================================= flow engine
\* FlowService.CreateFlow, ResumeFlow, TickFlow and CancelFlow, statement by
\* statement; the service holds no lock.

FlowEvent(type, f, status) == [type |-> type, flowId |-> f, status |-> status]

\* slots are taken in order (they are interchangeable)
FreeFlowCall(c) ==
  /\ Serving
  /\ c \in FlowCallIds
  /\ fcalls[c].op = "idle"
  /\ \A d \in FlowCallIds : d < c => fcalls[d].op # "idle"

FlowDone(c) == [fcalls EXCEPT ![c].pc = "done"]
FlowGoto(c, pc) == [fcalls EXCEPT ![c].pc = pc]
FlowAt(c, op, pc) == fcalls[c].op = op /\ fcalls[c].pc = pc

\* UPDATE flows SET status = $2 WHERE id = $1
UpdateFlowStatus(rows, id, status) ==
  IF rows[id].status = NoRow THEN rows ELSE [rows EXCEPT ![id].status = status]

\* UPDATE flows SET cursor = $2 WHERE id = $1
UpdateFlowCursor(rows, id, cursor) ==
  IF rows[id].status = NoRow THEN rows ELSE [rows EXCEPT ![id].cursor = cursor]

\* BasicFlowRunner.Run
BasicRun(cursor) ==
  IF cursor.step = ""
    THEN [kind |-> "continue", cursor |-> [cursor EXCEPT !.step = "init"], await |-> Null]
    ELSE IF cursor.step = "complete"
      THEN [kind |-> "done", cursor |-> cursor, await |-> Null]
      ELSE [kind |-> "continue", cursor |-> cursor, await |-> Null]

\* BasicFlowRunner.AwaitInput, as a runner's step: a request is created
\* (await), its id is appended to cursor.pending, the step suspends
AwaitResults(cursor) ==
  {[kind |-> "suspend", cursor |-> [cursor EXCEPT !.pending = Append(@, r)], await |-> r] :
     r \in {q \in Reqs : requests[q].status = NoRow}}

\* FlowRunner.Run: the default runner's result, or (a runner installed with
\* SetRunner) a StepResult that suspends, with or without AwaitInput, or
\* fails.
RunResults(cursor) ==
  {BasicRun(cursor), [kind |-> "suspend", cursor |-> cursor, await |-> Null],
   [kind |-> "err", cursor |-> cursor, await |-> Null]} \cup AwaitResults(cursor)

\* RequestService.CreateRequest called by AwaitInput for request r: the row
\* is inserted PENDING (no deadline, flow_id NULL) and request.created is
\* published; nothing when the step awaits no input
AwaitInput(r, owner) ==
  IF r = Null
    THEN UNCHANGED <<requests, busVars>>
    ELSE /\ requests' = [requests EXCEPT ![r] =
               [status |-> StatusPending, schemaKind |-> SchemaKindJSON, entity |-> owner,
                createdBy |-> "cl1", deadline |-> "none", flowId |-> Null]]
         /\ SetBus(Publish(Publish(BusState,
               EntityChannel(owner), Event("request.created", r)),
               RequestorChannel("cl1"), Event("request.created", r)))

\* the status each StepResult is persisted as
OutcomeStatus(kind) ==
  IF kind = "suspend" THEN FlowStatusSuspended
  ELSE IF kind = "done" THEN FlowStatusCompleted
  ELSE FlowStatusFailed

OutcomeEvent(kind) ==
  IF kind = "suspend" THEN "flow.suspended"
  ELSE IF kind = "done" THEN "flow.completed"
  ELSE "flow.failed"

\* CreateFlow: INSERT INTO flows, status RUNNING
CreateFlowInsert(c, f, step) ==
  /\ FreeFlowCall(c)
  /\ flows[f].status = NoRow
  /\ flows' = [flows EXCEPT ![f] =
       [status |-> FlowStatusRunning, owner |-> "e1",
        cursor |-> [EmptyCursor EXCEPT !.step = step]]]
  /\ fcalls' = [fcalls EXCEPT ![c] =
       [IdleFlowCall EXCEPT !.op = "create", !.pc = "publish", !.flow = f, !.owner = "e1"]]
  /\ UNCHANGED <<reqVars, busVars, evVars, recovery>>
  /\ UNCHANGED <<schemaVars, reminders>>

\* CreateFlow: flow.created on the owner's channel
CreateFlowPublish(c) ==
  /\ FlowAt(c, "create", "publish")
  /\ SetBus(Publish(BusState, EntityChannel(fcalls[c].owner),
                    FlowEvent("flow.created", fcalls[c].flow, Null)))
  /\ fcalls' = FlowDone(c)
  /\ UNCHANGED <<reqVars, evVars, flows, recovery>>
  /\ UNCHANGED <<schemaVars, reminders>>

\* a call's frame once GetFlowByID has returned row f to it
FlowFrame(op, pc, f) ==
  [op |-> op, pc |-> pc, flow |-> f, owner |-> flows[f].owner,
   cursor |-> flows[f].cursor, outcome |-> Null, event |-> NoEvent]

\* ResumeFlow as mutated: lastEvent is not set in the copy of the cursor
ResumeFrame_CursorAsRead(f, event, rid) ==
  IF flows[f].status = NoRow
    THEN [IdleFlowCall EXCEPT !.op = "resume", !.pc = "done", !.flow = f]
    ELSE [FlowFrame("resume", "cursor", f) EXCEPT
            !.event = [type |-> event, requestId |-> rid]]

\* ResumeFlow up to the change of its copy of the cursor: GetFlowByID, and
\* the event {type, data: {requestId}} becomes lastEvent in the copy
ResumeFrame(f, event, rid) ==
  IF flows[f].status = NoRow
    THEN [IdleFlowCall EXCEPT !.op = "resume", !.pc = "done", !.flow = f]
    ELSE [FlowFrame("resume", "cursor", f) EXCEPT
            !.event = [type |-> event, requestId |-> rid],
            !.cursor.lastEvent = [type |-> event, requestId |-> rid]]

\* a client calls ResumeFlow
ResumeFlowGet(c, f, event, rid) ==
  /\ FreeFlowCall(c)
  /\ fcalls' = [fcalls EXCEPT ![c] = ResumeFrame(f, event, rid)]
  /\ UNCHANGED <<reqVars, busVars, evVars, flows, recovery>>
  /\ UNCHANGED <<schemaVars, reminders>>

\* ResumeFlow: UpdateFlowCursor with the copy
ResumeFlowCursor(c) ==
  /\ FlowAt(c, "resume", "cursor")
  /\ flows' = UpdateFlowCursor(flows, fcalls[c].flow, fcalls[c].cursor)
  /\ fcalls' = FlowGoto(c, "status")
  /\ UNCHANGED <<reqVars, busVars, evVars, recovery>>
  /\ UNCHANGED <<schemaVars, reminders>>

\* ResumeFlow: UpdateFlowStatus RUNNING
ResumeFlowStatus(c) ==
  /\ FlowAt(c, "resume", "status")
  /\ flows' = UpdateFlowStatus(flows, fcalls[c].flow, FlowStatusRunning)
  /\ fcalls' = FlowGoto(c, "run")
  /\ UNCHANGED <<reqVars, busVars, evVars, recovery>>
  /\ UNCHANGED <<schemaVars, reminders>>

\* ResumeFlow: runner.Run on the copy, then UpdateFlowCursor with the
\* result's cursor
ResumeFlowStep(c) ==
  /\ FlowAt(c, "resume", "run")
  /\ \E result \in RunResults(fcalls[c].cursor) :
       /\ flows' = UpdateFlowCursor(flows, fcalls[c].flow, result.cursor)
       /\ fcalls' = [fcalls EXCEPT
            ![c].cursor = result.cursor, ![c].outcome = result.kind,
            ![c].pc = IF result.kind = "continue" THEN "publish" ELSE "outcome"]
       /\ AwaitInput(result.await, fcalls[c].owner)
  /\ UNCHANGED <<responses, tasks, calls, evVars, recovery>>
  /\ UNCHANGED <<schemaVars, reminders>>

\* ResumeFlow: UpdateFlowStatus SUSPENDED, COMPLETED or FAILED
ResumeFlowOutcome(c) ==
  /\ FlowAt(c, "resume", "outcome")
  /\ flows' = UpdateFlowStatus(flows, fcalls[c].flow, OutcomeStatus(fcalls[c].outcome))
  /\ fcalls' = FlowGoto(c, "publish")
  /\ UNCHANGED <<reqVars, busVars, evVars, recovery>>
  /\ UNCHANGED <<schemaVars, reminders>>

\* ResumeFlow: flow.suspended, flow.completed, flow.failed or (the step
\* continues) flow.updated RUNNING
ResumeFlowPublish(c) ==
  /\ FlowAt(c, "resume", "publish")
  /\ SetBus(Publish(BusState, EntityChannel(fcalls[c].owner),
       IF fcalls[c].outcome = "continue"
         THEN FlowEvent("flow.updated", fcalls[c].flow, FlowStatusRunning)
         ELSE FlowEvent(OutcomeEvent(fcalls[c].outcome), fcalls[c].flow, Null)))
  /\ fcalls' = FlowDone(c)
  /\ UNCHANGED <<reqVars, evVars, flows, recovery>>
  /\ UNCHANGED <<schemaVars, reminders>>

\* TickFlow: GetFlowByID; returns unless the flow is RUNNING or SUSPENDED
TickFrame(f) ==
  IF flows[f].status \in {FlowStatusRunning, FlowStatusSuspended}
    THEN FlowFrame("tick", "run", f)
    ELSE [IdleFlowCall EXCEPT !.op = "tick", !.pc = "done", !.flow = f]

\* a client calls TickFlow
TickFlowGet(c, f) ==
  /\ FreeFlowCall(c)
  /\ fcalls' = [fcalls EXCEPT ![c] = TickFrame(f)]
  /\ UNCHANGED <<reqVars, busVars, evVars, flows, recovery>>
  /\ UNCHANGED <<schemaVars, reminders>>

\* TickFlow: runner.Run on the copy, then UpdateFlowCursor
TickFlowStep(c) ==
  /\ FlowAt(c, "tick", "run")
  /\ \E result \in RunResults(fcalls[c].cursor) :
       /\ flows' = UpdateFlowCursor(flows, fcalls[c].flow, result.cursor)
       /\ fcalls' = [fcalls EXCEPT
            ![c].cursor = result.cursor, ![c].outcome = result.kind,
            ![c].pc = IF result.kind = "continue" THEN "done" ELSE "outcome"]
       /\ AwaitInput(result.await, fcalls[c].owner)
  /\ UNCHANGED <<responses, tasks, calls, evVars, recovery>>
  /\ UNCHANGED <<schemaVars, reminders>>

\* TickFlow: UpdateFlowStatus SUSPENDED, COMPLETED or FAILED
TickFlowOutcome(c) ==
  /\ FlowAt(c, "tick", "outcome")
  /\ flows' = UpdateFlowStatus(flows, fcalls[c].flow, OutcomeStatus(fcalls[c].outcome))
  /\ fcalls' = FlowGoto(c, "publish")
  /\ UNCHANGED <<reqVars, busVars, evVars, recovery>>
  /\ UNCHANGED <<schemaVars, reminders>>

\* TickFlow: flow.suspended, flow.completed or flow.failed
TickFlowPublish(c) ==
  /\ FlowAt(c, "tick", "publish")
  /\ SetBus(Publish(BusState, EntityChannel(fcalls[c].owner),
                    FlowEvent(OutcomeEvent(fcalls[c].outcome), fcalls[c].flow, Null)))
  /\ fcalls' = FlowDone(c)
  /\ UNCHANGED <<reqVars, evVars, flows, recovery>>
  /\ UNCHANGED <<schemaVars, reminders>>

\* CancelFlow: GetFlowByID
CancelFlowGet(c, f) ==
  /\ FreeFlowCall(c)
  /\ fcalls' = [fcalls EXCEPT ![c] =
       IF flows[f].status = NoRow
         THEN [IdleFlowCall EXCEPT !.op = "cancel", !.pc = "done", !.flow = f]
         ELSE FlowFrame("cancel", "status", f)]
  /\ UNCHANGED <<reqVars, busVars, evVars, flows, recovery>>
  /\ UNCHANGED <<schemaVars, reminders>>

\* CancelFlow: UpdateFlowStatus CANCELLED
CancelFlowStatus(c) ==
  /\ FlowAt(c, "cancel", "status")
  /\ flows' = UpdateFlowStatus(flows, fcalls[c].flow, FlowStatusCancelled)
  /\ fcalls' = FlowGoto(c, "publish")
  /\ UNCHANGED <<reqVars, busVars, evVars, recovery>>
  /\ UNCHANGED <<schemaVars, reminders>>

\* CancelFlow: flow.updated CANCELLED
CancelFlowPublish(c) ==
  /\ FlowAt(c, "cancel", "publish")
  /\ SetBus(Publish(BusState, EntityChannel(fcalls[c].owner),
                    FlowEvent("flow.updated", fcalls[c].flow, FlowStatusCancelled)))
  /\ fcalls' = FlowDone(c)
  /\ UNCHANGED <<reqVars, evVars, flows, recovery>>
  /\ UNCHANGED <<schemaVars, reminders>>

\* ------------------------------------------------ flow engine specification
NextFlow ==
  \/ \E c \in FlowCallIds, f \in Flows, step \in {"", "complete"} : CreateFlowInsert(c, f, step)
  \/ \E c \in FlowCallIds : CreateFlowPublish(c)
  \/ \E c \in FlowCallIds, f \in Flows, event \in {"request.answered", "timer.fired"} :
       ResumeFlowGet(c, f, event, Null)
  \/ \E c \in FlowCallIds : ResumeFlowCursor(c)
  \/ \E c \in FlowCallIds : ResumeFlowStatus(c)
  \/ \E c \in FlowCallIds : ResumeFlowStep(c)
  \/ \E c \in FlowCallIds : ResumeFlowOutcome(c)
  \/ \E c \in FlowCallIds : ResumeFlowPublish(c)
  \/ \E c \in FlowCallIds, f \in Flows : TickFlowGet(c, f)
  \/ \E c \in FlowCallIds : TickFlowStep(c)
  \/ \E c \in FlowCallIds : TickFlowOutcome(c)
  \/ \E c \in FlowCallIds : TickFlowPublish(c)
  \/ \E c \in FlowCallIds, f \in Flows : CancelFlowGet(c, f)
  \/ \E c \in FlowCallIds : CancelFlowStatus(c)
  \/ \E c \in FlowCallIds : CancelFlowPublish(c)

SpecFlow == Init /\ [][NextFlow]_vars

\* ======================================================= flow engine claims
TerminalFlowStatus == {FlowStatusCompleted, FlowStatusCancelled, FlowStatusFailed}

\* C9: once a flow's status is COMPLETED, CANCELLED or FAILED it never
\* changes again.
C9_FlowTerminalStable ==
  [][\A f \in Flows :
       flows[f].status \in TerminalFlowStatus => flows'[f].status = flows[f].status]_vars

\* call c has read the flow and has not yet persisted the outcome of its step
InFlowStep(c) ==
  /\ fcalls[c].op \in {"resume", "tick"}
  /\ fcalls[c].pc \in {"cursor", "status", "run", "outcome"}

\* C10: two resume or tick calls for the same flow never overlap: one reads
\* the flow only after the other has persisted the result of its step.
C10_FlowSerialised ==
  \A c, d \in FlowCallIds :
    (c # d /\ InFlowStep(c) /\ InFlowStep(d)) => fcalls[c].flow # fcalls[d].flow

\* ======================================================== restart, recovery
\* The process stops and starts again; main runs FlowService.RecoverFlows
\* before it serves.

\* flows in the order of created_at
FlowsByCreation == <<"f1">>

\* what is in the database about flows and the requests they wait for
Stored == [flows |-> flows, status |-> [r \in Reqs |-> requests[r].status]]

\* the record kept (not program state) for the pass that is starting
NewPass ==
  [before |-> Stored, after |-> Stored, done |-> FALSE,
   outcome |-> [f \in Flows |-> Null]]

LastPass == recovery.passes[Len(recovery.passes)]
SetLastPass(p) == [recovery.passes EXCEPT ![Len(recovery.passes)] = p]

\* a call that was running when the process stopped never continues
Abandon(frame) == IF frame.pc \in {"idle", "done"} THEN frame ELSE [frame EXCEPT !.pc = "done"]

\* The process is stopped and started: calls in progress are abandoned, the
\* hub's queue is lost, the database and the task queue stay; main starts
\* RecoverFlows.
Restart ==
  /\ Serving
  /\ recovery.restarts < MaxRestarts
  /\ calls' = [c \in CallIds |->
       IF calls[c].pc \in {"idle", "done"} THEN calls[c]
       ELSE [calls[c] EXCEPT !.pc = "done", !.result = "crashed"]]
  /\ fcalls' = [c \in FlowSlots |-> Abandon(fcalls[c])]
  /\ hubQ' = <<>>
  /\ recovery' = [recovery EXCEPT !.pc = "list", !.restarts = @ + 1,
                                  !.passes = Append(@, NewPass)]
  /\ UNCHANGED <<requests, responses, tasks, seqCounter, stream, clock, evVars, flows>>
  /\ UNCHANGED <<schemaVars, reminders>>

\* GetFlowsByStatus RUNNING, SUSPENDED: the rows as they are now
RecoverList ==
  /\ recovery.pc = "list"
  /\ LET listed(f) == flows[f].status \in {FlowStatusRunning, FlowStatusSuspended}
         ids == SelectSeq(FlowsByCreation, listed)
     IN recovery' = [recovery EXCEPT !.pc = "flow",
          !.list = [k \in 1..Len(ids) |->
                      [id |-> ids[k], status |-> flows[ids[k]].status,
                       cursor |-> flows[ids[k]].cursor]]]
  /\ UNCHANGED <<reqVars, busVars, evVars, flows, fcalls>>
  /\ UNCHANGED <<schemaVars, reminders>>

\* RecoverFlows calls TickFlow / ResumeFlow itself and waits for the return
RecoveryCalls(frame) == [fcalls EXCEPT ![RecoveryCall] = frame]

\* the loop over the flows listed: the next flow, by the status listed.
\* SUSPENDED: its cursor.pending is inspected (nothing to do without one);
\* RUNNING: TickFlow. The pass ends with the list.
RecoverFlow ==
  /\ recovery.pc = "flow"
  /\ IF recovery.list = <<>>
       THEN /\ recovery' = [recovery EXCEPT !.pc = "idle",
                 !.passes = SetLastPass([LastPass EXCEPT !.after = Stored, !.done = TRUE])]
            /\ UNCHANGED fcalls
       ELSE LET fl == Head(recovery.list)
            IN IF fl.status = FlowStatusSuspended
                 THEN /\ recovery' =
                           IF fl.cursor.pending = <<>>
                             THEN [recovery EXCEPT !.list = Tail(@)]
                             ELSE [recovery EXCEPT !.pc = "pending", !.i = 1,
                                                   !.allAnswered = TRUE]
                      /\ UNCHANGED fcalls
                 ELSE /\ fcalls' = RecoveryCalls(TickFrame(fl.id))
                      /\ recovery' = [recovery EXCEPT !.pc = "wait"]
  /\ UNCHANGED <<reqVars, busVars, evVars, flows>>
  /\ UNCHANGED <<schemaVars, reminders>>

PendingVerdict_ClaimedResumes(status) ==
  IF status \in {StatusAnswered, StatusClaimed} THEN "resume"
  ELSE IF status \in {NoRow, StatusPending} THEN "open"
  ELSE "closed"

\* the loop over cursor.pending, by the status GetRequest returns: ANSWERED
\* resumes the flow and ends the loop; PENDING, CLAIMED or a failed read
\* leave allAnswered false; any other status changes nothing
PendingVerdict(status) ==
  IF status = StatusAnswered THEN "resume"
  ELSE IF status \in {NoRow, StatusPending, StatusClaimed} THEN "open"
  ELSE "closed"

\* the loop over cursor.pending of the flow listed, one GetRequest a step;
\* after the last entry TickFlow is called if allAnswered is still true
RecoverPending ==
  /\ recovery.pc = "pending"
  /\ LET fl == Head(recovery.list)
         i == recovery.i
     IN IF i > Len(fl.cursor.pending)
          THEN IF recovery.allAnswered
                 THEN /\ fcalls' = RecoveryCalls(TickFrame(fl.id))
                      /\ recovery' = [recovery EXCEPT !.pc = "wait"]
                 ELSE /\ recovery' = [recovery EXCEPT !.pc = "flow", !.list = Tail(@)]
                      /\ UNCHANGED fcalls
          ELSE LET r == fl.cursor.pending[i]
                   verdict == PendingVerdict(requests[r].status)
               IN IF verdict = "resume"
                    THEN /\ fcalls' = RecoveryCalls(ResumeFrame(fl.id, "request.answered", r))
                         /\ recovery' = [recovery EXCEPT !.pc = "wait"]
                    ELSE /\ recovery' = [recovery EXCEPT !.i = i + 1,
                              !.allAnswered = IF verdict = "open" THEN FALSE ELSE @]
                         /\ UNCHANGED fcalls
  /\ UNCHANGED <<reqVars, busVars, evVars, flows>>
  /\ UNCHANGED <<schemaVars, reminders>>

\* TickFlow / ResumeFlow has returned to RecoverFlows: on to the next flow
RecoverWait ==
  /\ recovery.pc = "wait"
  /\ fcalls[RecoveryCall].pc = "done"
  /\ fcalls' = RecoveryCalls(IdleFlowCall)
  /\ recovery' = [recovery EXCEPT !.pc = "flow", !.list = Tail(@),
       !.passes = SetLastPass([LastPass EXCEPT
          !.outcome[fcalls[RecoveryCall].flow] = fcalls[RecoveryCall].outcome])]
  /\ UNCHANGED <<reqVars, busVars, evVars, flows>>
  /\ UNCHANGED <<schemaVars, reminders>>

\* ------------------------------------------------- recovery specification
\* flows that await requests, the requests' handlers, restarts
NextRec ==
  \/ \E c \in 1..MaxRecCalls, f \in Flows, step \in {"", "complete"} :
       CreateFlowInsert(c, f, step)
  \/ \E c \in 1..MaxRecCalls : CreateFlowPublish(c)
  \/ \E c \in 1..MaxRecCalls, f \in Flows : TickFlowGet(c, f)
  \/ \E c \in FlowSlots : TickFlowStep(c)
  \/ \E c \in FlowSlots : TickFlowOutcome(c)
  \/ \E c \in FlowSlots : TickFlowPublish(c)
  \/ \E c \in FlowSlots : ResumeFlowCursor(c)
  \/ \E c \in FlowSlots : ResumeFlowStatus(c)
  \/ \E c \in FlowSlots : ResumeFlowStep(c)
  \/ \E c \in FlowSlots : ResumeFlowOutcome(c)
  \/ \E c \in FlowSlots : ResumeFlowPublish(c)
  \/ \E c \in 1..MaxRecCalls, r \in Reqs : ClaimRequestUpdate(c, r, "e1")
  \/ \E c \in 1..MaxRecCalls : ClaimRequestPublish(c)
  \/ \E c \in 1..MaxRecCalls, r \in Reqs, by \in {""}, payload \in {"valid"} :
       PostResponseRead(c, r, by, payload)
  \/ \E c \in 1..MaxRecCalls : PostResponseInsert(c)
  \/ \E c \in 1..MaxRecCalls : PostResponseUpdate(c)
  \/ \E c \in 1..MaxRecCalls : PostResponsePublish(c)
  \/ \E c \in 1..MaxRecCalls, r \in Reqs : CancelRequestUpdate(c, r)
  \/ \E c \in 1..MaxRecCalls : CancelRequestPublish(c)
  \/ Restart
  \/ RecoverList
  \/ RecoverFlow
  \/ RecoverPending
  \/ RecoverWait

SpecRec == Init /\ [][NextRec]_vars

\* ========================================================= recovery claims
\* the recovery passes that have run to their end
DonePasses == {k \in 1..Len(recovery.passes) : recovery.passes[k].done}

\* before pass k flow f was SUSPENDED with request r as its one pending entry
SuspendedOn(k, f, r) ==
  /\ recovery.passes[k].before.flows[f].status = FlowStatusSuspended
  /\ recovery.passes[k].before.flows[f].cursor.pending = <<r>>

IsPrefix(s, t) == Len(s) <= Len(t) /\ SubSeq(t, 1, Len(s)) = s

\* what the cursor held before pass k is still there after it: the pending
\* entries, and the step unless the runner itself advanced it
CursorKept(k, f) ==
  LET old == recovery.passes[k].before.flows[f].cursor
      new == recovery.passes[k].after.flows[f].cursor
  IN /\ IsPrefix(old.pending, new.pending)
     /\ new.step = old.step \/ (old.step = "" /\ new.step = "init")

StatusAfterStep(outcome, status) ==
  IF outcome = "continue" THEN status ELSE OutcomeStatus(outcome)

C12_RecoveryIdempotent ==
  \A k \in DonePasses : \A f \in Flows :
    (/\ k + 1 \in DonePasses
     /\ recovery.passes[k + 1].before = recovery.passes[k].after
     /\ recovery.passes[k].after.flows[f].status
          \in TerminalFlowStatus \cup {FlowStatusSuspended})
      => recovery.passes[k + 1].after.flows[f] = recovery.passes[k].after.flows[f]

\* ================================================= flow ownership of requests
\* request r belongs to flow f: its flow_id column names f, or f's cursor
\* lists it as pending (the entry awaitInput appends)
OwnedBy(r, f) ==
  /\ requests[r].status # NoRow
  /\ \/ requests[r].flowId = f
     \/ \E i \in 1..Len(flows[f].cursor.pending) : flows[f].cursor.pending[i] = r

\* C13: when a cancel of a flow completes, every request of that flow that
\* was PENDING or CLAIMED is CANCELLED.
C13_CancelFlowCancelsRequests ==
  [][\A c \in FlowCallIds : \A r \in Reqs :
       (/\ FlowAt(c, "cancel", "publish")
        /\ fcalls'[c].pc = "done"
        /\ OwnedBy(r, fcalls[c].flow)
        /\ requests[r].status \in {StatusPending, StatusClaimed})
         => requests'[r].status = StatusCancelled]_vars

\* C14: once a cancel of a request has completed, the flow that owns the
\* request has been resumed with request.cancelled for it.
C14_CancelledResumesFlow ==
  \A c \in CallIds : \A f \in Flows :
    (/\ calls[c].op = "cancel"
     /\ calls[c].pc = "done"
     /\ calls[c].result = "ok"
     /\ requests[calls[c].req].status = StatusCancelled
     /\ OwnedBy(calls[c].req, f))
      => flows[f].cursor.lastEvent =
           [type |-> "request.cancelled", requestId |-> calls[c].req]

\* --------------------------------------------- answered requests of flows
\* a flow that awaits a request, the request's responses, restarts
NextAwait ==
  \/ \E c \in 1..MaxRecCalls, f \in Flows : CreateFlowInsert(c, f, "")
  \/ \E c \in 1..MaxRecCalls : CreateFlowPublish(c)
  \/ \E c \in 1..MaxRecCalls, f \in Flows : TickFlowGet(c, f)
  \/ \E c \in FlowSlots : TickFlowStep(c)
  \/ \E c \in FlowSlots : TickFlowOutcome(c)
  \/ \E c \in FlowSlots : TickFlowPublish(c)
  \/ \E c \in FlowSlots : ResumeFlowCursor(c)
  \/ \E c \in FlowSlots : ResumeFlowStatus(c)
  \/ \E c \in FlowSlots : ResumeFlowStep(c)
  \/ \E c \in FlowSlots : ResumeFlowOutcome(c)
  \/ \E c \in FlowSlots : ResumeFlowPublish(c)
  \/ \E c \in {1}, r \in Reqs, by \in {""}, payload \in {"valid"} :
       PostResponseRead(c, r, by, payload)
  \/ \E c \in {1} : PostResponseInsert(c)
  \/ \E c \in {1} : PostResponseUpdate(c)
  \/ \E c \in {1} : PostResponsePublish(c)
  \/ Restart
  \/ RecoverList
  \/ RecoverFlow
  \/ RecoverPending
  \/ RecoverWait

\* A handler, a flow call or a recovery pass that has started takes its next
\* step sooner or later (goroutines of a running process are scheduled);
\* nothing obliges a client to make a call or the process to restart.
RequestCallStep(c) ==
  \/ PostResponseInsert(c)
  \/ PostResponseUpdate(c)
  \/ PostResponsePublish(c)

FlowCallStep(c) ==
  \/ CreateFlowPublish(c)
  \/ ResumeFlowCursor(c)
  \/ ResumeFlowStatus(c)
  \/ ResumeFlowStep(c)
  \/ ResumeFlowOutcome(c)
  \/ ResumeFlowPublish(c)
  \/ TickFlowStep(c)
  \/ TickFlowOutcome(c)
  \/ TickFlowPublish(c)

RecoveryStep == RecoverList \/ RecoverFlow \/ RecoverPending \/ RecoverWait

FairAwait ==
  /\ WF_vars(RequestCallStep(1))
  /\ \A c \in FlowSlots : WF_vars(FlowCallStep(c))
  /\ WF_vars(RecoveryStep)

SpecAwait == Init /\ [][NextAwait]_vars /\ FairAwait

\* flow f is SUSPENDED with request r pending and a response to r has been
\* accepted
AnsweredWhileSuspended(f, r) ==
  /\ flows[f].status = FlowStatusSuspended
  /\ \E i \in 1..Len(flows[f].cursor.pending) : flows[f].cursor.pending[i] = r
  /\ \E c \in CallIds : /\ calls[c].op = "post"
                        /\ calls[c].req = r
                        /\ calls[c].pc = "done"
                        /\ calls[c].result = "ok"

\* C15: a flow that is suspended on request R whose response was accepted is
\* eventually resumed with request.answered {requestId: R}.
C15_AnsweredResumes ==
  \A f \in Flows, r \in Reqs :
    AnsweredWhileSuspended(f, r) ~>
      (flows[f].cursor.lastEvent = [type |-> "request.answered", requestId |-> r])

\* ================================================== responses of a request
ValidatingKinds == {SchemaKindJSON, SchemaKindRef}

ResponsesOf(r) == {row \in responses : row.request = r}

\* C16: a postResponse whose payload violates the schema of a request of a
\* validating kind fails (with schema-violation unless the request or the
\* answering entity is missing), changing neither the request's status nor
\* the responses; and every stored response of such a request has a payload
\* that satisfies the schema.
C16_InvalidPayloadRejected ==
  [][/\ \A c \in CallIds :
          (/\ calls[c].op = "idle"
           /\ calls'[c].op = "post"
           /\ calls'[c].payload = "invalid"
           /\ requests[calls'[c].req].schemaKind \in ValidatingKinds)
            => /\ calls'[c].pc = "done"
               /\ calls'[c].result \in
                    {"schema-violation", "request-not-found", "entity-not-found"}
               /\ requests[calls'[c].req].status # NoRow
                    => calls'[c].result # "request-not-found"
               /\ requests' = requests
               /\ responses' = responses
     /\ \A row \in responses' :
          requests'[row.request].schemaKind \in ValidatingKinds
            => row.payload = "valid"]_vars

\* C16 witness: a postResponse with an invalid payload for a request of a
\* validating kind has failed with schema-violation, and a response with a
\* valid payload is stored for another call.
C16_Witness ==
  \E c, d \in CallIds :
    /\ calls[c].op = "post" /\ calls[c].payload = "invalid"
    /\ calls[c].result = "schema-violation"
    /\ requests[calls[c].req].schemaKind \in ValidatingKinds
    /\ calls[d].op = "post" /\ calls[d].payload = "valid"
    /\ \E row \in responses : row.id = d

\* C17: in every state a request is ANSWERED exactly if a response row
\* references it.
C17_AnsweredIffResponse ==
  \A r \in Reqs : requests[r].status = StatusAnswered <=> ResponsesOf(r) # {}

\* C18: a request never has more than one response row.
C18_AtMostOneResponse ==
  \A r \in Reqs : Cardinality(ResponsesOf(r)) <= 1

\* the request.claimed events in the log of the request's channel
ClaimedEvents(r) ==
  {i \in 1..Len(stream[RequestChannel(r)]) :
     stream[RequestChannel(r)][i].ev = Event("request.claimed", r)}

\* C19: whatever the number of claims of a request and their interleaving,
\* at most one request.claimed event is emitted for it: one for the claim
\* that returned success, none for a claim that failed.
C19_OneClaimedEvent ==
  \A r \in Reqs :
    LET emitted == {c \in CallIds : /\ calls[c].op = "claim"
                                    /\ calls[c].req = r
                                    /\ calls[c].result = "ok"}
    IN /\ Cardinality(ClaimedEvents(r)) = Cardinality(emitted)
       /\ Cardinality(ClaimedEvents(r)) <= 1

\* C19 witness: two claims of one request have returned, one with success
\* and one with claim-conflict, and the log holds one request.claimed event.
C19_Witness ==
  \E c, d \in CallIds :
    /\ calls[c].op = "claim" /\ calls[c].result = "ok"
    /\ calls[d].op = "claim" /\ calls[d].req = calls[c].req
    /\ calls[d].result = "claim-conflict"
    /\ Cardinality(ClaimedEvents(calls[c].req)) = 1

\* ======================================================= fan-out of events
\* C20: an event handed to the hub while a connected session is subscribed
\* to its channel is queued for fan-out, and at fan-out every subscribed
\* session either gets the event on its send queue or is evicted.
C20_NoSilentMiss ==
  [][/\ \A p \in PubIds : \A c \in ConnIds :
          (/\ pubs[p].pc = "hub"
           /\ pubs'[p].pc = "done"
           /\ c \in hubSubs[pubs[p].channel]
           /\ conns[c].state = "open")
            => /\ Len(hubQ') = Len(hubQ) + 1
               /\ hubQ'[Len(hubQ')].seq = pubs[p].seq
     /\ Len(hubQ') < Len(hubQ) =>
          \A c \in hubSubs[Head(hubQ).channel] :
            \/ /\ Len(conns'[c].send) = Len(conns[c].send) + 1
               /\ conns'[c].send[Len(conns'[c].send)] = LiveMessage(Head(hubQ))
            \/ c \notin hubConns'
            \/ ~conns'[c].sendOpen
            \/ crashed']_vars

\* =================================================== slow subscribers
\* C21: while the process runs, a publish call that has reached Hub.Publish
\* and a fan-out step with an event to send can always be taken, whatever
\* the fill level of the subscribers' queues, and the fan-out step that
\* meets a full queue completes (the process goes on running).
C21_PublisherNeverBlocked ==
  /\ [](~crashed =>
          /\ \A p \in PubIds : pubs[p].pc = "hub" => ENABLED PubHub(p)
          /\ Len(hubQ) > 0 => ENABLED (HubRun \/ \E c \in ConnIds : HubEvict(c)))
  /\ [][(\E c \in ConnIds : conns[c].evicting /\ ~conns'[c].evicting) => ~crashed']_vars

\* ================================================ acknowledged positions
\* C22: the position recorded for a channel and a subscriber never goes
\* down: it is the highest seq acknowledged so far.
C22_AckHighest ==
  [][\A ch \in Channels, u \in Users : ackPos'[ch][u] >= ackPos[ch][u]]_vars

\* the open sessions that connected as user u
SessionsOf(u) == {c \in ConnIds : conns[c].state = "open" /\ conns[c].userID = u}

\* C23: the position of a session changes only by that session's acks: no
\* position changes that is the position of two open sessions at once.
C23_AckPerSession ==
  [][\A ch \in Channels, u \in Users :
       ackPos'[ch][u] # ackPos[ch][u] => Cardinality(SessionsOf(u)) <= 1]_vars

\* ======================================================== scheduled tasks
\* the handler runs of task kind k for request r that went through: they
\* wrote the status and published the event
FiresInEffect(k, r) ==
  {c \in CallIds : calls[c].op = k /\ calls[c].req = r /\ calls[c].result = "ok"}

\* C24: of the times a scheduled task fires for one request at most one has
\* an effect; firing it again leaves the state as the first firing left it.
C24_TaskFiresOnce ==
  \A k \in TaskKinds \cup {"deadline:notify"}, r \in Reqs :
    Cardinality(FiresInEffect(k, r)) <= 1

\* ================================================= the life of one request
\* create, claim and postResponse have each been called once for request r,
\* in this order, each has returned success, and nothing else was called
LifecycleDone(r) ==
  \E c1, c2, c3 \in CallIds :
    /\ calls[c1].op = "create" /\ calls[c1].req = r /\ calls[c1].result = "ok"
    /\ calls[c2].op = "claim" /\ calls[c2].req = r /\ calls[c2].result = "ok"
    /\ calls[c3].op = "post" /\ calls[c3].req = r /\ calls[c3].result = "ok"
    /\ calls[c3].seen = StatusClaimed
    /\ \A d \in CallIds \ {c1, c2, c3} : calls[d].op = "idle"

\* C25: after create, claim and postResponse of a request for entity E, with
\* nothing else on E's channel, the log of entity:<E> holds request.created
\* with seq 1, request.claimed with seq 2 and request.answered with seq 3.
C25_EntityChannelEvents ==
  \A r \in Reqs :
    LifecycleDone(r) =>
      LET log == stream[EntityChannel(requests[r].entity)]
          types == <<"request.created", "request.claimed", "request.answered">>
      IN /\ Len(log) = 3
         /\ \A i \in 1..3 : log[i].ev = Event(types[i], r) /\ log[i].seq = i

\* ======================================================== event messages
\* C26: every message written to a session for a published event, live or
\* replayed, has type "event", names the channel and carries the event
\* under data.
C26_EventEnvelope ==
  \A c \in ConnIds : \A i \in 1..Len(conns[c].received) :
    LET m == conns[c].received[i]
    IN /\ m.type = "event"
       /\ m.channel = m.src
       /\ m.data # NoData
       /\ m.seq > 0

\* ========================================================= claim and lock
\* the responders whose claim of request r took effect
ClaimersOf(r) ==
  {calls[c].by : c \in {d \in CallIds : /\ calls[d].op = "claim"
                                        /\ calls[d].req = r
                                        /\ calls[d].pc \in {"publish", "done"}
                                        /\ calls[d].result # "claim-conflict"}}

\* C28: a claim makes the request CLAIMED and locks it to the claimer:
\* a response to a request that is CLAIMED is accepted only from the
\* responder that claimed it.
C28_LockedToClaimer ==
  [][\A x \in responses' \ responses :
       requests[x.request].status = StatusClaimed => x.answeredBy \in ClaimersOf(x.request)]_vars

\* ======================================================= outbound queues
\* C29: a connection's outbound queue is closed at most once and nothing is
\* sent on it after it was closed, however eviction, the end of the read
\* loop, acknowledgement replies and resume replay interleave. (A second
\* close of conn.send and a send on the closed conn.send are the program's
\* only panics, and each of them sets crashed.)
C29_QueueClosedOnce ==
  [][\A c \in ConnIds :
       /\ (conns[c].evicting /\ ~conns'[c].evicting) => c \notin hubConns
       /\ (~conns[c].sendOpen /\ conns[c].state = "open") => ~crashed']_vars

\* C30: every connection in a subscriber set is registered and its outbound
\* queue is open; an unregistered or evicted connection is in no subscriber
\* set.
C30_SubscribersRegistered ==
  \A ch \in Channels : \A c \in hubSubs[ch] :
    /\ c \in hubConns
    /\ conns[c].sendOpen

\* ======================================================== schema compiler
\* the reference URLs, allowlists and documents drawn
RefURLs ==
  {<<"https://a.com", "/s/", "x.json">>, <<"https://b.com", "/x.json">>, <<"#/defs/x">>}
Allowlists ==
  {<<<<"https://a.com", "/s/", "x.json">>>>,
   <<<<"https://a.com", "/s/", "*">>>>,
   <<<<"https://a.com", "/other.json">>>>,
   <<<<"https://a.com", BadEscape>>>>,
   <<<<"https://b.com", "/x.json">>, <<"/local.json">>>>}
\* nodes with a reference, and the nodes that may hold one of them
RefLeaves == {[ref |-> r, kids |-> <<>>] : r \in RefURLs}
Inner ==
  {[ref |-> r, kids |-> k] :
     r \in RefURLs \cup {NoRef}, k \in {<<>>} \cup {<<l>> : l \in RefLeaves}}
\* a document: its own "$ref" or none, and no value, one value (with one
\* below it or none) or two sibling values
Schemas ==
  {[ref |-> r, kids |-> k, valid |-> v] :
     r \in {NoRef, <<"https://b.com", "/x.json">>},
     k \in {<<>>} \cup {<<n>> : n \in Inner} \cup {<<a, b>> : a, b \in RefLeaves},
     v \in BOOLEAN}

\* NewCompilerWithCacheAndAllowlist
NewCompilerWithCacheAndAllowlist(allowlist) ==
  /\ compiler' = [refAllowlist |-> allowlist, cache |-> <<>>]
  /\ prepared' = NoPrepare
  /\ UNCHANGED <<reqVars, busVars, evVars, flowVars, reminders>>

\* a call of Compiler.Prepare
PrepareCall(schema) ==
  /\ LET out == Prepare(compiler, schema)
     IN /\ compiler' = [compiler EXCEPT !.cache = out.cache]
        /\ prepared' = [called |-> TRUE, schema |-> schema, err |-> out.err]
  /\ UNCHANGED <<reqVars, busVars, evVars, flowVars, reminders>>

\* the cache's entries expire after an hour
CacheExpire ==
  /\ Len(compiler.cache) > 0
  /\ compiler' = [compiler EXCEPT !.cache = <<>>]
  /\ UNCHANGED <<prepared, reqVars, busVars, evVars, flowVars, reminders>>

NextSchema ==
  \/ \E allowlist \in Allowlists : NewCompilerWithCacheAndAllowlist(allowlist)
  \/ \E schema \in Schemas : PrepareCall(schema)
  \/ CacheExpire

SpecSchema == Init /\ [][NextSchema]_vars

RECURSIVE RefsOf(_)
\* every reference URL in a document, nested ones included
RefsOf(v) ==
  (IF v.ref = NoRef THEN {} ELSE {v.ref})
    \cup UNION {RefsOf(v.kids[i]) : i \in 1..Len(v.kids)}

\* every reference URL of the last prepared document matches a pattern
AllRefsMatch ==
  \A u \in RefsOf(prepared.schema) :
    \E i \in 1..Len(compiler.refAllowlist) : matchesPattern(u, compiler.refAllowlist[i])

C31_LiveSeqIsStoredSeq ==
  \A p \in PubIds : pubs[p].pc \in {"hub", "done"} =>
    /\ pubs[p].seq = pubs[p].incr
    /\ \E i \in 1..Len(stream[pubs[p].channel]) :
         stream[pubs[p].channel][i].seq = pubs[p].seq

\* ========================================================== flow steps
\* C32: a resume persists the cursor with lastEvent set to its event, then
\* sets the status RUNNING, and only then invokes the runner, which is given
\* a cursor whose lastEvent is that event.
C32_ResumePersistsThenRuns ==
  [][\A c \in FlowSlots : fcalls[c].op = "resume" =>
       LET f == fcalls[c].flow
       IN /\ (fcalls[c].pc = "cursor" /\ fcalls'[c].pc # "cursor" /\ fcalls'[c].pc # "done")
               => /\ fcalls'[c].pc = "status"
                  /\ flows'[f].cursor.lastEvent = fcalls[c].event
          /\ (fcalls[c].pc = "status" /\ fcalls'[c].pc # "status" /\ fcalls'[c].pc # "done")
               => /\ fcalls'[c].pc = "run"
                  /\ flows'[f].status = FlowStatusRunning
          /\ (fcalls[c].pc = "run" /\ fcalls'[c].pc # "run")
               => fcalls[c].cursor.lastEvent = fcalls[c].event]_vars

\* a resume of a flow whose stored lastEvent was another event has had its
\* runner step
C32_Witness ==
  \E c \in FlowSlots :
    /\ fcalls[c].op = "resume"
    /\ fcalls[c].pc \in {"outcome", "publish"}
    /\ fcalls[c].event.type = "timer.fired"
    /\ fcalls[c].outcome # Null
    /\ \E d \in FlowSlots :
         /\ fcalls[d].op = "resume"
         /\ fcalls[d].pc = "done"
         /\ fcalls[d].flow = fcalls[c].flow
         /\ fcalls[d].event.type = "request.answered"

\* the status the engine is to give a flow after a runner result of this kind
StatusForResult(kind) ==
  IF kind = "suspend" THEN FlowStatusSuspended
  ELSE IF kind = "done" THEN FlowStatusCompleted
  ELSE IF kind = "err" THEN FlowStatusFailed
  ELSE FlowStatusRunning

\* call c, a resume or a tick that invoked the runner, returns in this step
StepCallReturns(c) ==
  /\ fcalls[c].op \in {"resume", "tick"}
  /\ fcalls[c].pc \in {"run", "outcome", "publish"}
  /\ fcalls'[c].pc = "done"
  /\ fcalls'[c].outcome # Null

\* C33: when a resume or tick that invoked the runner returns, the flow's
\* cursor is the one the runner returned and its status is the one of the
\* result: SUSPENDED on suspend, COMPLETED on done, FAILED on error, RUNNING
\* when the result carries only a cursor.
C33_StatusFromResult ==
  [][\A c \in FlowCallIds : StepCallReturns(c) =>
       /\ flows'[fcalls[c].flow].cursor = fcalls'[c].cursor
       /\ flows'[fcalls[c].flow].status = StatusForResult(fcalls'[c].outcome)]_vars

\* ============================================================ awaitInput
\* the requests a step of flow call c created with AwaitInput in this step
AwaitedInStep(c) ==
  {r \in Reqs : /\ requests[r].status = NoRow
                /\ requests'[r].status # NoRow
                /\ fcalls[c].pc = "run"
                /\ fcalls'[c].pc # "run"}

\* C35: AwaitInput creates a request whose flow_id is the flow's id, appends
\* the request to cursor.pending, and the step suspends.
C35_AwaitInputLinksFlow ==
  [][\A c \in FlowCallIds : \A r \in AwaitedInStep(c) :
       /\ requests'[r].status = StatusPending
       /\ fcalls'[c].outcome = "suspend"
       /\ \E i \in 1..Len(fcalls'[c].cursor.pending) : fcalls'[c].cursor.pending[i] = r
       /\ requests'[r].flowId = fcalls[c].flow]_vars

\* ================================================ recovery, closed requests
\* the event that tells a flow its request was closed with this status
ClosedEvent(status) ==
  IF status = StatusCancelled THEN "request.cancelled" ELSE "request.expired"

\* C34: a recovery pass that finds a flow suspended on a request that is
\* CANCELLED or EXPIRED resumes the flow with request.cancelled or
\* request.expired for that request.
C34_RecoveryResumesClosed ==
  \A k \in DonePasses : \A f \in Flows, r \in Reqs :
    (/\ SuspendedOn(k, f, r)
     /\ recovery.passes[k].before.status[r] \in {StatusCancelled, StatusExpired})
      => recovery.passes[k].after.flows[f].cursor.lastEvent =
           [type |-> ClosedEvent(recovery.passes[k].before.status[r]), requestId |-> r]

\* ====================================================== tasks already due
\* requests created with a deadline, ahead or already past, and the workers
\* of the job queue; a call in progress goes on and a worker picks up every
\* task that is queued (there is a call slot for each task of a request)
NextJobs ==
  \/ \E c \in CallIds, r \in Reqs, target \in {"e1"},
        kind \in {SchemaKindJSON, SchemaKindExample}, deadline \in {"none", "future", "past"} :
       CreateRequestInsert(c, r, target, kind, deadline)
  \/ \E c \in CallIds : CreateRequestPublish(c)
  \/ \E r \in Reqs : ClientScheduleAutoCancel(r)
  \/ \E c \in CallIds, kind \in TaskKinds, r \in Reqs :
       JobRead(c, [kind |-> kind, req |-> r])
  \/ \E c \in CallIds : DeadlineExpiryUpdate(c)
  \/ \E c \in CallIds : DeadlineExpiryPublish(c)
  \/ \E c \in CallIds : AutoCancelUpdate(c)
  \/ \E c \in CallIds : AutoCancelPublish(c)

FairJobs ==
  /\ WF_vars(\E c \in CallIds : CreateRequestPublish(c))
  /\ WF_vars(\E c \in CallIds, kind \in TaskKinds, r \in Reqs :
               JobRead(c, [kind |-> kind, req |-> r]))
  /\ WF_vars(\E c \in CallIds : DeadlineExpiryUpdate(c))
  /\ WF_vars(\E c \in CallIds : DeadlineExpiryPublish(c))
  /\ WF_vars(\E c \in CallIds : AutoCancelUpdate(c))
  /\ WF_vars(\E c \in CallIds : AutoCancelPublish(c))

SpecJobs == Init /\ [][NextJobs]_vars /\ FairJobs

\* CreateRequest has returned for request r: its tasks have been scheduled
Scheduled(r) ==
  \E c \in CallIds : calls[c].op = "create" /\ calls[c].req = r /\ calls[c].pc = "done"
                     /\ calls[c].result = "ok"

\* C36: a deadline-expire task scheduled with a fire time already past is
\* executed at once: a PENDING request whose deadline is past when its
\* tasks are scheduled becomes EXPIRED (or is cancelled by its auto-cancel
\* first).
C36_PastDeadlineExpires ==
  \A r \in Reqs :
    (Scheduled(r) /\ requests[r].deadline = "past")
      ~> (requests[r].status \in {StatusExpired, StatusCancelled})

\* ------------------------------------------------ reminders (snooze)
\* ids the database generates for rows of table reminders
Rems == {"m1", "m2"}

\* reminder tasks the queue's client schedules are bounded by the length of
\* the entity's stream
MaxFires == 2

\* the asynq task "reminder:snooze", its payload the reminder's id
ReminderTask(m) == [kind |-> "reminder:snooze", req |-> m]

\* the event handleReminder publishes
ReminderEvent(r, m) == [type |-> "request.reminder", requestId |-> r, reminderId |-> m]

\* Queries.CreateReminder: INSERT INTO reminders ... RETURNING. created_at
\* (DEFAULT NOW()) is kept as what the request's status was at the insert
CreateReminder(tbl, m, r, e, remindAt, createdAt) ==
  tbl \cup {[id |-> m, request |-> r, entity |-> e, remindAt |-> remindAt,
             createdAt |-> createdAt]}

\* Queries.GetReminderByID: the rows with this id (none: the query fails)
GetReminderByID(tbl, m) == {row \in tbl : row.id = m}

\* jobs.ScheduleReminder: a reminder time already past is skipped
ScheduleReminder(q, m, remindAt) ==
  IF remindAt = "past" THEN q ELSE q \cup {ReminderTask(m)}

\* Dependencies.snooze, POST /requests/{id}/snooze with header X-Entity-ID:
\* the insert fails on a request or an entity that does not exist (foreign
\* keys); nothing but the insert is done
snooze(m, r, e, remindAt) ==
  /\ Serving
  /\ GetReminderByID(reminders, m) = {}
  /\ IF requests[r].status # NoRow /\ e \in Entities
       THEN reminders' = CreateReminder(reminders, m, r, e, remindAt, requests[r].status)
       ELSE UNCHANGED reminders
  /\ UNCHANGED <<reqVars, busVars, evVars, flowVars, schemaVars>>

\* a client of the queue calls jobs.ScheduleReminder (AsynqJobClient.ScheduleReminder)
\* for a stored reminder; no code of the server makes this call
ClientScheduleReminder(m) ==
  /\ ReminderTask(m) \notin tasks
  /\ \E row \in GetReminderByID(reminders, m) :
       /\ Len(stream[EntityChannel(row.entity)]) < MaxFires
       /\ tasks' = ScheduleReminder(tasks, m, row.remindAt)
  /\ UNCHANGED <<requests, responses, calls, busVars, reminders>>
  /\ UNCHANGED <<evVars, flowVars, schemaVars>>

\* JobServer.handleReminder: GetReminderByID, PublishEntity; the row is left
\* in the table and the request's status is not read
handleReminder(m) ==
  /\ ReminderTask(m) \in tasks
  /\ tasks' = tasks \ {ReminderTask(m)}
  /\ IF GetReminderByID(reminders, m) = {}
       THEN UNCHANGED busVars
       ELSE LET row == CHOOSE x \in GetReminderByID(reminders, m) : TRUE
            IN SetBus(Publish(BusState, EntityChannel(row.entity),
                              ReminderEvent(row.request, m)))
  /\ UNCHANGED <<requests, responses, calls, reminders>>
  /\ UNCHANGED <<evVars, flowVars, schemaVars>>

NextRem ==
  \/ \E c \in CallIds, r \in Reqs, kind \in {SchemaKindJSON} :
       CreateRequestInsert(c, r, "e1", kind, "none")
  \/ \E c \in CallIds : CreateRequestPublish(c)
  \/ \E c \in CallIds, r \in Reqs : CancelRequestUpdate(c, r)
  \/ \E c \in CallIds : CancelRequestPublish(c)
  \/ \E m \in Rems, r \in Reqs, e \in {"e1", "e2", "ghost"}, remindAt \in {"future", "past"} :
       snooze(m, r, e, remindAt)
  \/ \E m \in Rems : ClientScheduleReminder(m)
  \/ \E m \in Rems : handleReminder(m)

\* the asynq workers run every queued task; a call in progress goes on
FairRem ==
  /\ WF_vars(\E m \in Rems : handleReminder(m))
  /\ WF_vars(\E c \in CallIds : CreateRequestPublish(c))
  /\ WF_vars(\E c \in CallIds : CancelRequestPublish(c))

SpecRem == Init /\ [][NextRem]_vars /\ FairRem

\* the request.reminder events published so far for reminder m
Reminded(m) ==
  \E e \in Entities : \E i \in 1..Len(stream[EntityChannel(e)]) :
     LET ev == stream[EntityChannel(e)][i].ev
     IN ev.type = "request.reminder" /\ ev.reminderId = m

\* the step is the run of reminder m's task
ReminderFires(m) == ReminderTask(m) \in tasks /\ ReminderTask(m) \notin tasks'

\* C37: a reminder inserted while its request was PENDING or CLAIMED is
\* deleted when the request is answered, cancelled or expired, so the run of
\* its task after that publishes no request.reminder
C37_NoReminderAfterClose ==
  [][\A m \in Rems : \A row \in GetReminderByID(reminders, m) :
       (/\ ReminderFires(m)
        /\ row.createdAt \in {StatusPending, StatusClaimed}
        /\ requests[row.request].status \in
             {StatusAnswered, StatusCancelled, StatusExpired})
         => stream' = stream]_vars

\* C38: the run of a reminder task publishes request.reminder on the channel
\* of the reminder's entity and deletes the row of the reminder
C38_ReminderFiresAndDeletes ==
  [][\A m \in Rems : \A row \in GetReminderByID(reminders, m) :
       ReminderFires(m)
         => /\ Len(stream'[EntityChannel(row.entity)]) = Len(stream[EntityChannel(row.entity)]) + 1
            /\ stream'[EntityChannel(row.entity)][Len(stream'[EntityChannel(row.entity)])].ev
                 = ReminderEvent(row.request, m)
            /\ GetReminderByID(reminders', m) = {}]_vars

\* C39: a reminder inserted by snooze with a time still ahead leads to a
\* request.reminder event for it
C39_SnoozeLeadsToReminder ==
  \A m \in Rems :
    (\E row \in GetReminderByID(reminders, m) : row.remindAt = "future") ~> Reminded(m)

\* ------------------------------------------------ websocket commands
\* the session that sends cmd messages
CmdConns == {1}

\* the ids clients put on their cmd messages
CmdIds == {"k1", "k2", "k3"}

\* the JSON object sendResponse and sendError marshal, for a cmd that has an id
CmdReply(type, msgID, code) ==
  [type |-> type, channel |-> Null, seq |-> 0, data |-> NoData, requestId |-> Null,
   src |-> Null, id |-> msgID, code |-> code]

\* CommandHandler.sendResponse: select { case conn.send <- msg: default: }
sendResponse(q, msgID) == TrySend(q, CmdReply("response", msgID, Null))

\* CommandHandler.sendError, the same select
sendError(q, msgID, code) == TrySend(q, CmdReply("error", msgID, code))

\* CommandHandler.handleGetRequest with RequestService.GetRequest
handleGetRequest(q, msgID, requestID) ==
  IF requestID = ""
    THEN sendError(q, msgID, "invalid_input")
    ELSE IF requests[requestID].status = NoRow
           THEN sendError(q, msgID, "not_found")
           ELSE sendResponse(q, msgID)

\* handleMessage "cmd" -> CommandHandler.HandleCommand, run by the session's
\* read pump for the cmd message it has read; cmds keeps the ids read. A
\* client puts an id on one cmd only.
HandleCommand(c, op, msgID, requestID) ==
  /\ ~crashed
  /\ conns[c].state = "open"
  /\ msgID \notin conns[c].cmds
  /\ conns' = [conns EXCEPT
       ![c].cmds = @ \cup {msgID},
       ![c].send = IF ~conns[c].sendOpen THEN @
                   ELSE IF op = "getRequest" THEN handleGetRequest(@, msgID, requestID)
                   ELSE sendError(@, msgID, "unknown_command")]
  /\ crashed' = ~conns[c].sendOpen
  /\ UNCHANGED <<reqVars, flowVars, busVars, pubs, hubConns, hubSubs, ackPos, disc>>
  /\ UNCHANGED <<schemaVars, reminders>>

NextCmd ==
  \/ \E c \in CallIds, r \in Reqs, kind \in {SchemaKindJSON} :
       CreateRequestInsert(c, r, "e1", kind, "none")
  \/ \E c \in CallIds : CreateRequestPublish(c)
  \/ \E c \in ConnIds : Register(c)
  \/ \E c \in CmdConns, op \in {"getRequest", "bogus"}, msgID \in CmdIds,
        requestID \in Reqs \cup {""} :
       HandleCommand(c, op, msgID, requestID)
  \/ \E c \in ConnIds : WritePump(c)

\* the write pump of an open session goes on; a call in progress goes on
FairCmd ==
  /\ \A c \in ConnIds : WF_vars(WritePump(c))
  /\ WF_vars(\E c \in CallIds : CreateRequestPublish(c))

SpecCmd == Init /\ [][NextCmd]_vars /\ FairCmd

\* the replies with id k among the messages written to session c
Replies(c, k) ==
  {i \in 1..Len(conns[c].received) :
     /\ conns[c].received[i].type \in {"response", "error"}
     /\ conns[c].received[i].id = k}

\* C40: a cmd message read on a session leads to exactly one reply with its
\* id written to the session
C40_CmdRepliedOnce ==
  \A c \in ConnIds : \A k \in CmdIds :
    (k \in conns[c].cmds) ~> (Cardinality(Replies(c, k)) = 1)

====
